---- MODULE Spec2Model ----
(***************************************************************************)
(* Device-state ingestion and reconciliation of the Selve Home Server 2     *)
(* integration: the poll refresh (async_update_data), the UDP multicast     *)
(* listener (_udp_listener), the Recency Ledger (store["udp_last"]) and the *)
(* snapshot decoder (SeleveHomeServer.get_states).                          *)
(*                                                                           *)
(* A device record is a mapping keyed as __init__.py reads it               *)
(* (dev["type"], dev["state"]).  A Commeo status record is a mapping from   *)
(* field names to values; an Iveo state is a single string; a group has no  *)
(* "state" key.  Strings that are decoded character by character (flags)    *)
(* are sequences of one-character strings.                                  *)
(***************************************************************************)
EXTENDS Integers, Sequences, FiniteSets, TLC

VARIABLES
    data,             \* coordinator.data: sid -> device record
    udp_last,         \* store["udp_last"]: sid -> [state, ts]
    now,              \* monotonic(), in seconds
    pending,          \* the GetStates response whose decoded snapshot the
                      \* refresh awaits from the executor (at most one)
    polled,           \* history: sids delivered by some snapshot
    disable_polling,  \* CONF_DISABLE_POLLING
    udp_task,         \* the listener task: "running", "crashed" (ended by
                      \* an exception), "cancelling" (cancel() called) or
                      \* "cancelled"
    n_udp,            \* datagrams received so far
    n_poll,           \* refreshes started so far
    ev,               \* what the last handler was given and what it emitted
                      \* (notifications, warnings, the request posted)
    udp_pc,           \* the listener's position in its loop body
    poll_pc,          \* the refresh's position in async_update_data
    udp_loc,          \* the listener's locals: j, dev, udp_state
    poll_loc,         \* the refresh's locals: new_states, now, the loop
    sock,             \* the listener's multicast socket: "open" or "closed"
    unload_pc,        \* async_unload_entry: "loaded", "awaiting" the
                      \* cancelled task, "raised", "unloaded" or "kept"
    entities          \* the adapters of each device: the record the cover
                      \* holds (_dev) and the cached properties of the
                      \* cover, the flag sensors and the switch; empty in
                      \* the runs that leave the platforms out

\* the positions and locals, which only the statement-level steps move
stepVars == <<udp_pc, poll_pc, udp_loc, poll_loc>>

\* the socket and the teardown, which only the teardown steps move
teardownVars == <<sock, unload_pc>>

vars ==
    <<data, udp_last, now, pending, polled, disable_polling, udp_task,
      n_udp, n_poll, ev, udp_pc, poll_pc, udp_loc, poll_loc, sock, unload_pc,
      entities>>

-----------------------------------------------------------------------------
(* Bounds of the model *)

MaxTime == 22

MaxUdp == 2

MaxPolls == 1

\* the clock advances in steps of 20 or 21 seconds, so that a ledger entry
\* is read at an age of 0, of exactly 20 and of 21 seconds
TickSteps == {20, 21}

-----------------------------------------------------------------------------
(* Program constants *)

FreshWindow == 20

AllValues ==
    {"overload", "obstacle", "alarm", "position", "current", "target",
     "running_state"}

-----------------------------------------------------------------------------
(* Mappings (Python dicts) *)

EmptyDict == [k \in {} |-> 0]

\* dict.update(new)
DictUpdate(old, new) ==
    [k \in (DOMAIN old) \cup (DOMAIN new) |->
        IF k \in DOMAIN new THEN new[k] ELSE old[k]]

\* d.get(k) != v, where v is never None
GetDiffers(d, k, v) == IF k \in DOMAIN d THEN d[k] # v ELSE TRUE

SeqToSet(s) == {s[i] : i \in 1..Len(s)}

DictState(f) == [kind |-> "dict", fields |-> f]
StrState(s) == [kind |-> "str", str |-> s]

\* "state" in dev and isinstance(dev["state"], dict)
HasDictState(dev) ==
    IF "state" \in DOMAIN dev THEN dev.state.kind = "dict" ELSE FALSE

-----------------------------------------------------------------------------
(* Status flags of a Commeo delta (parseCommeoRawFlags) *)

HexChars ==
    <<"0", "1", "2", "3", "4", "5", "6", "7", "8", "9",
      "a", "b", "c", "d", "e", "f">>

IsHexChar(c) == \E i \in 1..16 : HexChars[i] = c

HexVal(c) == (CHOOSE i \in 1..16 : HexChars[i] = c) - 1

\* the 16-bit value of four hex characters
HexWord(s) ==
    HexVal(s[1]) * 4096 + HexVal(s[2]) * 256 + HexVal(s[3]) * 16 + HexVal(s[4])

Bit(v, i) == (v \div (2 ^ i)) % 2 = 1

Sentinel == <<"-">>

AbsentFlags == [known |-> FALSE]

DecodeFlags(v) ==
    [known |-> TRUE,
     timeout |-> Bit(v, 0),
     overload |-> Bit(v, 1),
     obstacle |-> Bit(v, 2),
     emergency_alarm |-> Bit(v, 3),
     sensor_learned |-> Bit(v, 4),
     sensor_connected |-> ~Bit(v, 5),
     automatic_mode |-> Bit(v, 6),
     cc_timeout |-> Bit(v, 7),
     wind_alarm |-> Bit(v, 8),
     rain_alarm |-> Bit(v, 9),
     frost_alarm |-> Bit(v, 10)]

\* whether parseCommeoRawFlags(udp_state) raises
ParseFlagsRaises(st) ==
    IF st.kind # "dict" THEN TRUE
    ELSE IF "flags" \notin DOMAIN st.fields THEN TRUE
    ELSE IF st.fields["flags"] = Sentinel THEN FALSE
    ELSE IF Len(st.fields["flags"]) # 4 THEN TRUE
    ELSE \E i \in 1..4 : ~IsHexChar(st.fields["flags"][i])

\* its result when it does not raise
parseCommeoRawFlags(st) ==
    IF st.fields["flags"] = Sentinel
    THEN AbsentFlags
    ELSE DecodeFlags(HexWord(st.fields["flags"]))

\* __init__.py 260-272: the delta as it is merged
NormalizedState(dev, st) ==
    IF dev.type = "CM" /\ ~ParseFlagsRaises(st)
    THEN DictState(DictUpdate(st.fields,
                              [k \in {"parsed_flags"} |-> parseCommeoRawFlags(st)]))
    ELSE st

-----------------------------------------------------------------------------
(* Names (server.py 12-20, 376-385).  A name is a sequence of one-character *)
(* strings.                                                                  *)

Base64Chars ==
    <<"A", "B", "C", "D", "E", "F", "G", "H", "I", "J", "K", "L", "M",
      "N", "O", "P", "Q", "R", "S", "T", "U", "V", "W", "X", "Y", "Z",
      "a", "b", "c", "d", "e", "f", "g", "h", "i", "j", "k", "l", "m",
      "n", "o", "p", "q", "r", "s", "t", "u", "v", "w", "x", "y", "z",
      "0", "1", "2", "3", "4", "5", "6", "7", "8", "9", "+", "/">>

IsBase64Char(c) == \E i \in 1..64 : Base64Chars[i] = c

\* the six bits of a character of the alphabet
Base64Val(c) == (CHOOSE i \in 1..64 : Base64Chars[i] = c) - 1

\* base64.b64decode(name), which validates nothing: the scan of
\* binascii.a2b_base64 from character i on, with `quad_pos` characters of
\* the current group read, `leftchar` the bits left over, `pads` the
\* padding characters counted and `out` the bytes decoded so far.  A
\* character outside the alphabet is skipped; padding that completes a
\* group ends the scan; an incomplete group at the end is an error.
RECURSIVE a2b_base64(_, _, _, _, _, _)
a2b_base64(name, i, quad_pos, leftchar, pads, out) ==
    IF i > Len(name)
    THEN IF quad_pos # 0 THEN [err |-> TRUE, bytes |-> <<>>]
         ELSE [err |-> FALSE, bytes |-> out]
    ELSE IF name[i] = "="
    THEN IF quad_pos >= 2 /\ quad_pos + pads + 1 >= 4
         THEN [err |-> FALSE, bytes |-> out]
         ELSE a2b_base64(name, i + 1, quad_pos, leftchar,
                         IF quad_pos >= 2 THEN pads + 1 ELSE pads, out)
    ELSE IF ~IsBase64Char(name[i])
    THEN a2b_base64(name, i + 1, quad_pos, leftchar, pads, out)
    ELSE LET v == Base64Val(name[i]) IN
         CASE quad_pos = 0 -> a2b_base64(name, i + 1, 1, v, 0, out)
           [] quad_pos = 1 ->
                a2b_base64(name, i + 1, 2, v % 16, 0,
                           Append(out, leftchar * 4 + v \div 16))
           [] quad_pos = 2 ->
                a2b_base64(name, i + 1, 3, v % 4, 0,
                           Append(out, leftchar * 16 + v \div 4))
           [] OTHER ->
                a2b_base64(name, i + 1, 0, 0, 0,
                           Append(out, leftchar * 64 + v))

b64decode(name) == a2b_base64(name, 1, 0, 0, 0, <<>>)

\* the printable ASCII characters, from code 32 on (the double quote, the
\* backslash and the backtick by name)
AsciiChars ==
    <<" ", "!", "dquote", "#", "$", "%", "&", "'", "(", ")", "*", "+", ",",
      "-", ".", "/", "0", "1", "2", "3", "4", "5", "6", "7", "8", "9",
      ":", ";", "<", "=", ">", "?", "@",
      "A", "B", "C", "D", "E", "F", "G", "H", "I", "J", "K", "L", "M",
      "N", "O", "P", "Q", "R", "S", "T", "U", "V", "W", "X", "Y", "Z",
      "[", "backslash", "]", "^", "_", "backtick",
      "a", "b", "c", "d", "e", "f", "g", "h", "i", "j", "k", "l", "m",
      "n", "o", "p", "q", "r", "s", "t", "u", "v", "w", "x", "y", "z",
      "{", "|", "}", "~">>

\* bytes.decode("utf-8", errors="replace"), for bytes of printable ASCII
\* (the names of the model decode to no other byte)
DecodeUtf8(bytes) == [i \in 1..Len(bytes) |-> AsciiChars[bytes[i] - 31]]

\* str.strip() of ASCII text
RECURSIVE Strip(_)
Strip(name) ==
    IF Len(name) = 0 THEN name
    ELSE IF name[1] = " " THEN Strip(Tail(name))
    ELSE IF name[Len(name)] = " " THEN Strip(SubSeq(name, 1, Len(name) - 1))
    ELSE name

\* fix_mojibake: ftfy.fix_encoding leaves ASCII text as it is
fix_mojibake(name) == IF Len(name) = 0 THEN name ELSE Strip(name)

\* 377-385: the name of a group after DeviceGroupState.from_response; a
\* name that does not decode is logged and left as it came
GroupName(name) ==
    IF Len(name) = 0 THEN name
    ELSE IF b64decode(name).err THEN name
    ELSE DecodeUtf8(b64decode(name).bytes)

-----------------------------------------------------------------------------
(* Receiver type codes (server.py 43-83) *)

ETYPE_LABELS ==
    [code \in (0..7) \cup (16..21) |->
        CASE code = 0 -> "Inside Blind"
          [] code = 1 -> "Outside Blind"
          [] code = 2 -> "Inside Awning"
          [] code = 3 -> "Outside Awning"
          [] code = 4 -> "Business Awning"
          [] code = 5 -> "Roller Shutter"
          [] code = 6 -> "Window"
          [] code = 7 -> "Folding Shutter"
          [] code = 16 -> "Night Light"
          [] code = 17 -> "Dusk Light"
          [] code = 18 -> "Heating"
          [] code = 19 -> "Cooling"
          [] code = 20 -> "Switch"
          [] OTHER -> "Sun Switch"]

\* a lookup in the table alone
label_for_e_type_TableOnly(code) ==
    IF code \in DOMAIN ETYPE_LABELS THEN ETYPE_LABELS[code] ELSE "Unknown"

\* 61-70, for a code that is a number (a raw eType that is no number gives
\* the code None and the label None; no such eType is among the inputs)
label_for_e_type(code) ==
    IF code \in DOMAIN ETYPE_LABELS THEN ETYPE_LABELS[code]
    ELSE IF 8 <= code /\ code <= 15 THEN "Unknown Motor Type"
    ELSE IF 22 <= code /\ code <= 31 THEN "Unknown Switch Type"
    ELSE "Unknown"

\* 73-83: the record with its code and its label
parse_e_type(dev, r) ==
    IF "eType" \notin DOMAIN r THEN dev
    ELSE [k \in (DOMAIN dev) \cup {"eType", "eType_code"} |->
            IF k = "eType" THEN label_for_e_type(r.eType)
            ELSE IF k = "eType_code" THEN r.eType
            ELSE dev[k]]

-----------------------------------------------------------------------------
(* Wire Decoder of the poll snapshot (server.py) *)

DecChars == <<"0", "1", "2", "3", "4", "5", "6", "7", "8", "9">>

IsDecChar(c) == \E i \in 1..10 : DecChars[i] = c

DecVal(c) == (CHOOSE i \in 1..10 : DecChars[i] = c) - 1

\* int(flags, 10) raises ValueError (signs, blanks and underscores, which
\* int() also accepts, are not among the inputs)
IntRaises(s) ==
    IF Len(s) = 0 THEN TRUE ELSE \E i \in 1..Len(s) : ~IsDecChar(s[i])

RECURSIVE IntBase10(_)
IntBase10(s) ==
    IF Len(s) = 0 THEN 0
    ELSE IntBase10(SubSeq(s, 1, Len(s) - 1)) * 10 + DecVal(s[Len(s)])

\* CommeoReceiverState._parse_flags: the bit order of the 16-bit value is
\* reversed, then bit i of the reversed value is read
RevBit(flags, i) == Bit(flags % 65536, 15 - i)

_parse_flags(flags) ==
    [timeout |-> RevBit(flags, 0),
     overload |-> RevBit(flags, 1),
     obstacle |-> RevBit(flags, 2),
     emergency_alarm |-> RevBit(flags, 3),
     sensor_learned |-> RevBit(flags, 4),
     sensor_connected |-> ~RevBit(flags, 5),
     automatic_mode |-> RevBit(flags, 6),
     cc_timeout |-> RevBit(flags, 7),
     wind_alarm |-> RevBit(flags, 8),
     rain_alarm |-> RevBit(flags, 9),
     frost_alarm |-> RevBit(flags, 10)]

\* a _parse_state that decodes the sentinel as the value 0
_parse_state_SentinelAsZero(st) ==
    DictState(DictUpdate(st.fields,
        [k \in {"attributes"} |->
            _parse_flags(IF st.fields["flags"] = Sentinel THEN 0
                         ELSE IntBase10(st.fields["flags"]))]))

\* CommeoReceiverState._parse_state raises: state["flags"] on a state that
\* is no mapping or has no flags, or int(flags, 10) on a non-decimal string
ParseStateRaises(st) ==
    IF st.kind # "dict" THEN TRUE
    ELSE IF "flags" \notin DOMAIN st.fields THEN TRUE
    ELSE IF st.fields["flags"] = Sentinel THEN FALSE
    ELSE IntRaises(st.fields["flags"])

_parse_state(st) ==
    IF st.fields["flags"] # Sentinel
    THEN DictState(DictUpdate(st.fields,
             [k \in {"attributes"} |->
                 _parse_flags(IntBase10(st.fields["flags"]))]))
    ELSE st

\* a get_states that takes every Commeo record that is no sensor for a
\* receiver
RecordKind_CoercesCommeo(r) ==
    IF r.type = "CM"
    THEN IF "deviceType" \in DOMAIN r /\ r.deviceType = "01" THEN "sensor"
         ELSE "receiver"
    ELSE IF r.type = "IV" THEN "iveo"
    ELSE IF r.type = "SGROUP" THEN "group"
    ELSE IF r.type = "EVENT" THEN "event"
    ELSE "unknown_type"

\* the branch of get_states a raw record takes
RecordKind(r) ==
    IF r.type = "CM"
    THEN IF "deviceType" \in DOMAIN r /\ r.deviceType = "00" THEN "receiver"
         ELSE IF "deviceType" \in DOMAIN r /\ r.deviceType = "01" THEN "sensor"
         ELSE "unknown_commeo"
    ELSE IF r.type = "IV" THEN "iveo"
    ELSE IF r.type = "SGROUP" THEN "group"
    ELSE IF r.type = "EVENT" THEN "event"
    ELSE "unknown_type"

\* from_response of the record's class raises
FromResponseRaises(r) ==
    CASE RecordKind(r) = "receiver" ->
            IF "state" \in DOMAIN r THEN ParseStateRaises(r.state) ELSE TRUE
      [] RecordKind(r) \in {"sensor", "iveo"} -> "state" \notin DOMAIN r
      [] OTHER -> FALSE

\* the device record stored under the record's sid
from_response(r) ==
    CASE RecordKind(r) = "receiver" ->
            parse_e_type([type |-> "CM", deviceType |-> 0,
                          state |-> _parse_state(r.state)], r)
      [] RecordKind(r) = "sensor" ->
            [type |-> "CM", deviceType |-> 1, state |-> r.state]
      [] RecordKind(r) = "iveo" ->
            [type |-> "IV", state |-> r.state]
      [] OTHER ->
            IF "name" \in DOMAIN r
            THEN [type |-> "SGROUP", name |-> fix_mojibake(GroupName(r.name))]
            ELSE [type |-> "SGROUP"]

IsDeviceRecord(r) == RecordKind(r) \in {"receiver", "sensor", "iveo", "group"}

\* get_states raises: there is no handler around any from_response call
GetStatesRaises(raw) ==
    \E i \in 1..Len(raw) : IsDeviceRecord(raw[i]) /\ FromResponseRaises(raw[i])

\* the last record of a sid wins: states[sid] = ... in array order
LastIndexOf(raw, sid) ==
    CHOOSE i \in 1..Len(raw) :
        /\ IsDeviceRecord(raw[i]) /\ raw[i].sid = sid
        /\ \A j \in (i + 1)..Len(raw) :
              ~(IsDeviceRecord(raw[j]) /\ raw[j].sid = sid)

get_states(raw) ==
    [sid \in {raw[i].sid : i \in {j \in 1..Len(raw) : IsDeviceRecord(raw[j])}} |->
        from_response(raw[LastIndexOf(raw, sid)])]

-----------------------------------------------------------------------------
(* Inputs: raw GetStates arrays *)

PollIdle ==
    [run_state |-> 0, position |-> 0, current |-> 100, target |-> 100,
     timeout |-> 0, flags |-> Sentinel]

PollMoving ==
    [run_state |-> 1, position |-> 50, current |-> 50, target |-> 100,
     timeout |-> 0, flags |-> Sentinel]

PollFlagged ==
    [run_state |-> 0, position |-> 50, current |-> 50, target |-> 50,
     timeout |-> 0, flags |-> <<"0", "0", "4", "0">>]

RawReceiver(sid, f) ==
    [type |-> "CM", deviceType |-> "00", sid |-> sid, state |-> DictState(f)]

RawIveo == [type |-> "IV", sid |-> "03", state |-> StrState("open")]

RawGroup == [type |-> "SGROUP", sid |-> "04"]

RawEvent == [type |-> "EVENT"]

\* a Commeo record of a deviceType that is neither receiver nor sensor
RawOddCommeo == [type |-> "CM", deviceType |-> "02", sid |-> "02"]

\* malformed Commeo receivers: no flags in the state; hex flags that are
\* no decimal number
RawNoFlags == RawReceiver("02", [run_state |-> 0, position |-> 50])

RawHexFlags ==
    RawReceiver("02", [run_state |-> 0, position |-> 50,
                       flags |-> <<"0", "0", "a", "0">>])

RawArrays ==
    {<<RawReceiver("01", PollIdle), RawReceiver("02", PollIdle), RawIveo, RawGroup>>,
     <<RawReceiver("01", PollMoving), RawReceiver("02", PollIdle), RawIveo, RawGroup>>,
     <<RawReceiver("02", PollIdle), RawIveo, RawGroup>>,
     <<RawReceiver("01", PollFlagged), RawEvent, RawOddCommeo>>,
     <<>>,
     <<RawReceiver("01", PollIdle), RawNoFlags, RawIveo>>,
     <<RawHexFlags, RawReceiver("01", PollMoving), RawGroup>>}

\* the responses the first refresh of the setup may have stored
InitArrays ==
    {<<RawReceiver("01", PollIdle), RawReceiver("02", PollIdle), RawIveo, RawGroup>>,
     <<RawReceiver("01", PollMoving), RawReceiver("02", PollIdle), RawIveo, RawGroup>>}

-----------------------------------------------------------------------------
(* Inputs: datagrams *)

AllSeven ==
    <<"overload", "obstacle", "alarm", "position", "current", "target",
      "running_state">>

Permuted ==
    <<"running_state", "target", "current", "position", "alarm", "obstacle",
      "overload">>

\* seven entries, one name twice and one missing
SevenWithDup ==
    <<"overload", "overload", "alarm", "position", "current", "target",
      "running_state">>

\* eight entries naming all seven fields
EightAll == AllSeven \o <<"overload">>

Bogus ==
    [run_state |-> 0, position |-> 0, current |-> 100, target |-> 100,
     timeout |-> 0]

Object(sid, changed, st) ==
    [prefix |-> "STA:", json |-> "object", sid |-> sid, changed |-> changed,
     state |-> st]

NoDgram == [prefix |-> "", json |-> "", sid |-> "", changed |-> <<>>,
            state |-> DictState(EmptyDict)]

\* deltas for receiver "01"
Deltas01 ==
    {Object("01", c, DictState(Bogus)) :
        c \in {AllSeven, Permuted, SevenWithDup, EightAll, <<>>}}
    \cup
    {Object("01", AllSeven, DictState(f)) :
        f \in {[Bogus EXCEPT !.run_state = 1],
               [Bogus EXCEPT !.position = 50],
               [Bogus EXCEPT !.current = 50],
               [Bogus EXCEPT !.target = 50],
               [Bogus EXCEPT !.timeout = 1],
               [run_state |-> 0, position |-> 0, current |-> 100,
                target |-> 100]}}
    \cup
    {Object("01", <<"position">>, DictState(f)) :
        f \in {[position |-> 50],
               [position |-> 50, flags |-> <<"0", "0", "4", "0">>],
               [flags |-> <<"z", "z">>],
               EmptyDict}}
    \cup
    {Object("01", AllSeven, StrState("open")),
     Object("01", <<>>, StrState("open"))}

Datagrams ==
    Deltas01
    \cup
    {Object("02", AllSeven, DictState(Bogus)),
     Object("02", <<"position">>, DictState([position |-> 50])),
     Object("03", AllSeven, DictState(Bogus)),
     Object("03", <<>>, StrState("closed")),
     Object("04", AllSeven, DictState(Bogus)),
     Object("04", <<"position">>, DictState([position |-> 50])),
     Object("09", <<"position">>, DictState([position |-> 50])),
     Object("", <<"position">>, DictState([position |-> 50])),
     [NoDgram EXCEPT !.prefix = "EVT:", !.json = "invalid"],
     [NoDgram EXCEPT !.prefix = "STA:", !.json = "nonobject"],
     [Object("01", <<"position">>, DictState([position |-> 50]))
         EXCEPT !.prefix = "XYZ:"]}

-----------------------------------------------------------------------------
(* Multicast listener: one pass of the receive loop (__init__.py 184-278) *)

FieldIs(f, k, v) == IF k \in DOMAIN f THEN f[k] = v ELSE FALSE

\* the fingerprint without its timeout term
MatchesFingerprint_NoTimeout(f) ==
    /\ FieldIs(f, "run_state", 0)
    /\ FieldIs(f, "position", 0)
    /\ FieldIs(f, "current", 100)
    /\ FieldIs(f, "target", 100)

\* the bogus fingerprint, 241-252
MatchesFingerprint(f) ==
    /\ FieldIs(f, "run_state", 0)
    /\ FieldIs(f, "position", 0)
    /\ FieldIs(f, "current", 100)
    /\ FieldIs(f, "target", 100)
    /\ FieldIs(f, "timeout", 0)

\* 221: changed_values is not None and len(changed_values) == 7
SevenChanged(d) == Len(d.changed) = 7

\* 228 and 238: last run-state 0 and the changed names are the seven fields
FilterApplies(dev, d) ==
    /\ SevenChanged(d)
    /\ FieldIs(dev.state.fields, "run_state", 0)
    /\ SeqToSet(d.changed) = AllValues

\* a listener that accepts every prefix
UdpOutcome_AnyPrefix(store, d) ==
    IF d.json = "invalid" THEN "bad_json"
    ELSE IF d.json = "nonobject" THEN "crash"
    ELSE IF d.sid = "" THEN "no_sid"
    ELSE IF d.sid \notin DOMAIN store THEN "unknown_device"
    ELSE IF SevenChanged(d) /\ ~HasDictState(store[d.sid]) THEN "no_state"
    ELSE IF HasDictState(store[d.sid]) /\ FilterApplies(store[d.sid], d)
            /\ d.state.kind # "dict" THEN "crash"
    ELSE IF HasDictState(store[d.sid]) /\ FilterApplies(store[d.sid], d)
            /\ MatchesFingerprint(d.state.fields) THEN "anomaly"
    ELSE IF ~HasDictState(store[d.sid]) THEN "no_state"
    ELSE IF d.state.kind # "dict" THEN "crash"
    ELSE "applied"

\* where the pass through the loop body ends
UdpOutcome(store, d) ==
    IF d.prefix \notin {"STA:", "EVT:"} THEN "bad_prefix"
    ELSE IF d.json = "invalid" THEN "bad_json"
    ELSE IF d.json = "nonobject" THEN "crash"
    ELSE IF d.sid = "" THEN "no_sid"
    ELSE IF d.sid \notin DOMAIN store THEN "unknown_device"
    ELSE IF SevenChanged(d) /\ ~HasDictState(store[d.sid]) THEN "no_state"
    ELSE IF HasDictState(store[d.sid]) /\ FilterApplies(store[d.sid], d)
            /\ d.state.kind # "dict" THEN "crash"
    ELSE IF HasDictState(store[d.sid]) /\ FilterApplies(store[d.sid], d)
            /\ MatchesFingerprint(d.state.fields) THEN "anomaly"
    ELSE IF ~HasDictState(store[d.sid]) THEN "no_state"
    ELSE IF d.state.kind # "dict" THEN "crash"
    ELSE "applied"

\* the status record replaced by the delta
MergeDelta_Replace(dev, f) == [dev EXCEPT !.state = DictState(f)]

\* 274: dev["state"].update(udp_state)
MergeDelta(dev, f) ==
    [dev EXCEPT !.state = DictState(DictUpdate(dev.state.fields, f))]

\* an event of a handler that calls no send_command and posts no request
Event(op, d, raw, outcome, notified, warned) ==
    [op |-> op, dgram |-> d, raw |-> raw, outcome |-> outcome,
     notified |-> notified, warned |-> warned,
     call |-> [device_id |-> "", cmd |-> "", value |-> <<>>, position |-> <<>>],
     sent |-> [XC_FNC |-> ""]]

\* a ledger entry that does not read the clock
LedgerEntry_NoClock(udp_state, t) == [state |-> udp_state, ts |-> 0]

\* 276: the ledger entry of an applied delta
LedgerEntry(udp_state, t) == [state |-> udp_state, ts |-> t]

\* the listener's locals while it waits for a datagram
NoUdpLocals == [d |-> NoDgram]

\* the refresh's locals while no refresh runs
NoPollLocals == [raw |-> <<>>]

\* a listener that records and announces a delta for a device that has no
\* status record
UdpEffect_RecordsStateless(d, outcome) ==
    /\ IF outcome = "applied"
       THEN LET udp_state == NormalizedState(data[d.sid], d.state).fields IN
            /\ data' = [data EXCEPT ![d.sid] = MergeDelta(data[d.sid], udp_state)]
            /\ udp_last' = DictUpdate(udp_last,
                   [s \in {d.sid} |-> LedgerEntry(udp_state, now)])
       ELSE IF outcome = "no_state"
       THEN /\ data' = data
            /\ udp_last' = DictUpdate(udp_last,
                   [s \in {d.sid} |-> LedgerEntry(EmptyDict, now)])
       ELSE UNCHANGED <<data, udp_last>>
    /\ udp_task' = IF outcome = "crash" THEN "crashed" ELSE "running"
    /\ ev' = Event("udp", d, <<>>, outcome,
                   IF outcome \in {"applied", "no_state"} THEN 1 ELSE 0, {})

\* the effect of one pass that ends as `outcome` says; an uncaught
\* exception ends the listener task
UdpEffect(d, outcome) ==
    /\ IF outcome = "applied"
       THEN LET udp_state == NormalizedState(data[d.sid], d.state).fields IN
            /\ data' = [data EXCEPT ![d.sid] = MergeDelta(data[d.sid], udp_state)]
            /\ udp_last' = DictUpdate(udp_last,
                   [s \in {d.sid} |-> LedgerEntry(udp_state, now)])
       ELSE UNCHANGED <<data, udp_last>>
    /\ udp_task' = IF outcome = "crash" THEN "crashed" ELSE "running"
    /\ ev' = Event("udp", d, <<>>, outcome,
                   IF outcome = "applied" THEN 1 ELSE 0, {})

\* a listener that creates the device a delta names when it is unknown
UdpReceive_Creates(d) ==
    /\ udp_task = "running"
    /\ n_udp < MaxUdp
    /\ n_udp' = n_udp + 1
    /\ IF UdpOutcome(data, d) = "unknown_device" /\ d.state.kind = "dict"
       THEN /\ data' = DictUpdate(data,
                   [s \in {d.sid} |-> [type |-> "CM", deviceType |-> 0,
                                       state |-> d.state]])
            /\ udp_last' = DictUpdate(udp_last,
                   [s \in {d.sid} |-> LedgerEntry(d.state.fields, now)])
            /\ udp_task' = "running"
            /\ ev' = Event("udp", d, <<>>, "applied", 1, {})
       ELSE UdpEffect(d, UdpOutcome(data, d))
    /\ UNCHANGED <<now, pending, polled, disable_polling, n_poll>>
    /\ UNCHANGED stepVars
    /\ UNCHANGED teardownVars
    /\ UNCHANGED entities

UdpReceive(d) ==
    /\ udp_task = "running"
    /\ n_udp < MaxUdp
    /\ n_udp' = n_udp + 1
    /\ UdpEffect(d, UdpOutcome(data, d))
    /\ UNCHANGED <<now, pending, polled, disable_polling, n_poll>>
    /\ UNCHANGED stepVars
    /\ UNCHANGED teardownVars
    /\ UNCHANGED entities

-----------------------------------------------------------------------------
(* Poll refresh (__init__.py 65-97) *)

\* the window as a strict bound
Fresh_Strict(entry, t) == t - entry.ts < FreshWindow

Fresh(entry, t) == t - entry.ts <= FreshWindow

\* a merge that replaces the polled status record by a fresh delta
ReconcileFields_Replace(poll, entry, t) ==
    IF Fresh(entry, t) THEN entry.state ELSE poll

\* 83-88 for one device: the status record after the loop over the delta
ReconcileFields(poll, entry, t) ==
    IF Fresh(entry, t) THEN DictUpdate(poll, entry.state) ELSE poll

\* a merge in which the snapshot always wins
Reconcile_SnapshotWins(snapshot, ledger, t) == snapshot

\* 75-96: the snapshot as async_update_data returns it
Reconcile(snapshot, ledger, t) ==
    [sid \in DOMAIN snapshot |->
        IF HasDictState(snapshot[sid]) /\ sid \in DOMAIN ledger
        THEN [snapshot[sid] EXCEPT !.state =
                 DictState(ReconcileFields(snapshot[sid].state.fields,
                                           ledger[sid], t))]
        ELSE snapshot[sid]]

\* 89-96: the mismatch warnings
\* 85: the fields of the delta whose poll value differs
Mismatches(poll, entry) ==
    {k \in DOMAIN entry.state : GetDiffers(poll, k, entry.state[k])}

\* warnings for every mismatch, fresh or stale
Warnings_AnyAge(snapshot, ledger, t) ==
    UNION {{<<sid, k>> : k \in Mismatches(snapshot[sid].state.fields, ledger[sid])} :
           sid \in {x \in (DOMAIN snapshot) \cap (DOMAIN ledger) :
                       HasDictState(snapshot[x])}}

\* 89-96: the mismatch warnings, as (sid, field) pairs
Warnings(snapshot, ledger, t) ==
    UNION {{<<sid, k>> : k \in Mismatches(snapshot[sid].state.fields, ledger[sid])} :
           sid \in {x \in (DOMAIN snapshot) \cap (DOMAIN ledger) :
                       HasDictState(snapshot[x]) /\ ~Fresh(ledger[x], t)}}

\* a coordinator that polls whatever the option says
PollFetch_AlwaysPolls(raw) ==
    /\ pending = {}
    /\ n_poll < MaxPolls
    /\ ~GetStatesRaises(raw)
    /\ n_poll' = n_poll + 1
    /\ pending' = {raw}
    /\ ev' = Event("fetch", NoDgram, raw, "fetched", 0, {})
    /\ UNCHANGED <<data, udp_last, now, polled, disable_polling, udp_task, n_udp>>
    /\ UNCHANGED stepVars
    /\ UNCHANGED teardownVars
    /\ UNCHANGED entities

\* 67: the executor runs get_states; the refresh awaits its result
PollFetch(raw) ==
    /\ ~disable_polling
    /\ pending = {}
    /\ n_poll < MaxPolls
    /\ ~GetStatesRaises(raw)
    /\ n_poll' = n_poll + 1
    /\ pending' = {raw}
    /\ ev' = Event("fetch", NoDgram, raw, "fetched", 0, {})
    /\ UNCHANGED <<data, udp_last, now, polled, disable_polling, udp_task, n_udp>>
    /\ UNCHANGED stepVars
    /\ UNCHANGED teardownVars
    /\ UNCHANGED entities

\* 70-71: get_states raised; the refresh fails with UpdateFailed
PollFail(raw) ==
    /\ ~disable_polling
    /\ pending = {}
    /\ n_poll < MaxPolls
    /\ GetStatesRaises(raw)
    /\ n_poll' = n_poll + 1
    /\ ev' = Event("fetch", NoDgram, raw, "failed", 0, {})
    /\ UNCHANGED <<data, udp_last, now, pending, polled, disable_polling,
                   udp_task, n_udp>>
    /\ UNCHANGED stepVars
    /\ UNCHANGED teardownVars
    /\ UNCHANGED entities

\* a refresh that drops the ledger entries it finds stale
PollMerge_Prunes ==
    /\ pending # {}
    /\ LET raw == CHOOSE x \in pending : TRUE
           new_states == get_states(raw)
       IN
       /\ data' = Reconcile(new_states, udp_last, now)
       /\ polled' = polled \cup DOMAIN new_states
       /\ ev' = Event("poll", NoDgram, raw, "merged", 1,
                      Warnings(new_states, udp_last, now))
    /\ udp_last' = [sid \in {x \in DOMAIN udp_last : Fresh(udp_last[x], now)} |->
                       udp_last[sid]]
    /\ pending' = {}
    /\ UNCHANGED <<now, disable_polling, udp_task, n_udp, n_poll>>
    /\ UNCHANGED stepVars
    /\ UNCHANGED teardownVars
    /\ UNCHANGED entities

\* 73-97, then the coordinator stores the result and calls its listeners
PollMerge ==
    /\ pending # {}
    /\ LET raw == CHOOSE x \in pending : TRUE
           new_states == get_states(raw)
       IN
       /\ data' = Reconcile(new_states, udp_last, now)
       /\ polled' = polled \cup DOMAIN new_states
       /\ ev' = Event("poll", NoDgram, raw, "merged", 1,
                      Warnings(new_states, udp_last, now))
    /\ pending' = {}
    /\ UNCHANGED <<udp_last, now, disable_polling, udp_task, n_udp, n_poll>>
    /\ UNCHANGED stepVars
    /\ UNCHANGED teardownVars
    /\ UNCHANGED entities

\* 103-104: with polling disabled a refresh returns the states object, which
\* is the object coordinator.data already is
ReturnStates ==
    /\ disable_polling
    /\ n_poll < MaxPolls
    /\ n_poll' = n_poll + 1
    /\ ev' = Event("refresh", NoDgram, <<>>, "returned", 1, {})
    /\ UNCHANGED <<data, udp_last, now, pending, polled, disable_polling,
                   udp_task, n_udp>>
    /\ UNCHANGED stepVars
    /\ UNCHANGED teardownVars
    /\ UNCHANGED entities

\* monotonic() advances
Tick(step) ==
    /\ now + step <= MaxTime
    /\ now' = now + step
    /\ ev' = Event("tick", NoDgram, <<>>, "", 0, {})
    /\ UNCHANGED <<data, udp_last, pending, polled, disable_polling, udp_task,
                   n_udp, n_poll>>
    /\ UNCHANGED stepVars
    /\ UNCHANGED teardownVars
    /\ UNCHANGED entities

-----------------------------------------------------------------------------
(* Flag binary sensor (binary_sensor.py 90-102) *)

FlagNames ==
    {"timeout", "overload", "obstacle", "emergency_alarm", "sensor_learned",
     "sensor_connected", "automatic_mode", "cc_timeout", "wind_alarm",
     "rain_alarm", "frost_alarm"}

\* SelveFlagBinarySensor.is_on: "None" (unknown), "True" or "False"
is_on(store, sid, flag) ==
    IF sid \notin DOMAIN store THEN "None"
    ELSE IF store[sid].type # "CM" THEN "None"
    ELSE IF "parsed_flags" \notin DOMAIN store[sid].state.fields THEN "None"
    ELSE IF flag \notin DOMAIN store[sid].state.fields["parsed_flags"] THEN "None"
    ELSE IF store[sid].state.fields["parsed_flags"][flag] THEN "True"
    ELSE "False"

-----------------------------------------------------------------------------
(* The HTTP layer of a poll (server.py 433-451, __init__.py 66-71) *)

\* a response whose body is the envelope {"XC_SUC": [...]} around `raw`
RespOk(raw) ==
    [status |-> 200, json |-> "object", envelope |-> TRUE,
     payload |-> "array", items |-> raw]

\* responses that carry no snapshot: a non-200 status (around a body that
\* would otherwise be good), a body that is no JSON, an empty envelope {},
\* an envelope with another key only, and the envelope {"XC_SUC": null}
BadResponses ==
    {[RespOk(<<RawIveo>>) EXCEPT !.status = 500],
     [RespOk(<<>>) EXCEPT !.json = "malformed"],
     [RespOk(<<>>) EXCEPT !.envelope = FALSE],
     [RespOk(<<RawIveo>>) EXCEPT !.envelope = FALSE],
     [RespOk(<<>>) EXCEPT !.payload = "null"]}

\* a request_cmd that does not look for the envelope key
RequestCmdRaises_NoEnvelopeCheck(resp) ==
    IF resp.status # 200 THEN TRUE
    ELSE resp.json # "object"

\* 437-443: request_cmd raises unless the status is 200 and the body is JSON
\* with the key XC_SUC (response.json() is not called on another status)
RequestCmdRaises(resp) ==
    IF resp.status # 200 THEN TRUE
    ELSE IF resp.json # "object" THEN TRUE
    ELSE ~resp.envelope

\* how get_states ends on a response: request_cmd raises (450), iterating
\* a null payload raises (452), a from_response raises, or it returns states
GetStatesOutcome(resp) ==
    IF RequestCmdRaises(resp) THEN "connectivity"
    ELSE IF resp.payload = "null" THEN "no_data"
    ELSE IF GetStatesRaises(resp.items) THEN "decode_error"
    ELSE "snapshot"

\* what the caller of get_states holds afterwards
GetStatesResult(resp) ==
    IF GetStatesOutcome(resp) = "snapshot"
    THEN [raised |-> FALSE, states |-> get_states(resp.items)]
    ELSE [raised |-> TRUE, error |-> GetStatesOutcome(resp)]

\* a failed refresh that stores an empty snapshot
PollHttpFail_Clears(resp) ==
    /\ ~disable_polling
    /\ pending = {}
    /\ n_poll < MaxPolls
    /\ GetStatesResult(resp).raised
    /\ n_poll' = n_poll + 1
    /\ data' = EmptyDict
    /\ ev' = Event("request", NoDgram, <<>>, GetStatesOutcome(resp), 0, {})
    /\ UNCHANGED <<udp_last, now, pending, polled, disable_polling,
                   udp_task, n_udp>>
    /\ UNCHANGED stepVars
    /\ UNCHANGED teardownVars
    /\ UNCHANGED entities

\* 66-71: get_states raised in request_cmd or on the payload; the refresh
\* raises UpdateFailed and the coordinator keeps its data
PollHttpFail(resp) ==
    /\ ~disable_polling
    /\ pending = {}
    /\ n_poll < MaxPolls
    /\ GetStatesResult(resp).raised
    /\ n_poll' = n_poll + 1
    /\ ev' = Event("request", NoDgram, <<>>, GetStatesOutcome(resp), 0, {})
    /\ UNCHANGED <<data, udp_last, now, pending, polled, disable_polling,
                   udp_task, n_udp>>
    /\ UNCHANGED stepVars
    /\ UNCHANGED teardownVars
    /\ UNCHANGED entities

-----------------------------------------------------------------------------
(* Receive errors and teardown (__init__.py 187-194, 285-300) *)

\* 191-194: sock_recvfrom raised; the listener logs, sleeps and goes on
UdpRecvError ==
    /\ udp_task = "running"
    /\ n_udp < MaxUdp
    /\ n_udp' = n_udp + 1
    /\ ev' = Event("udp", NoDgram, <<>>, "recv_error", 0, {})
    /\ UNCHANGED <<data, udp_last, now, pending, polled, disable_polling,
                   udp_task, n_poll, sock, unload_pc>>
    /\ UNCHANGED stepVars
    /\ UNCHANGED entities

\* 286-292: async_unload_entry calls udp_task.cancel(), which does nothing to
\* a task that has already ended, and then awaits the task (294)
UnloadCancel ==
    /\ unload_pc = "loaded"
    /\ unload_pc' = "awaiting"
    /\ udp_task' = IF udp_task = "running" THEN "cancelling" ELSE udp_task
    /\ ev' = Event("unload", NoDgram, <<>>, "cancel_requested", 0, {})
    /\ UNCHANGED <<data, udp_last, now, pending, polled, disable_polling,
                   n_udp, n_poll, sock>>
    /\ UNCHANGED stepVars
    /\ UNCHANGED entities

\* 188-190: CancelledError is raised at the await of 187, logged and raised
\* again, which ends the task; no statement of the listener closes the socket
ListenerCancelled ==
    /\ udp_task = "cancelling"
    /\ udp_task' = "cancelled"
    /\ ev' = Event("udp", NoDgram, <<>>, "cancelled", 0, {})
    /\ UNCHANGED <<data, udp_last, now, pending, polled, disable_polling,
                   n_udp, n_poll, sock, unload_pc>>
    /\ UNCHANGED stepVars
    /\ UNCHANGED entities

\* 293-300: the awaited task has ended.  The CancelledError of a cancelled
\* task is no Exception, so suppress(Exception) lets it through and
\* async_unload_entry ends there; the exception of a crashed task is
\* suppressed, the platforms are unloaded and the store is dropped when
\* unload_ok
UnloadAwait(unload_ok) ==
    /\ unload_pc = "awaiting"
    /\ udp_task \in {"cancelled", "crashed"}
    /\ unload_pc' = IF udp_task = "cancelled" THEN "raised"
                    ELSE IF unload_ok THEN "unloaded" ELSE "kept"
    /\ ev' = Event("unload", NoDgram, <<>>,
                   IF udp_task = "cancelled" THEN "cancelled_error"
                   ELSE IF unload_ok THEN "unloaded" ELSE "kept", 0, {})
    /\ UNCHANGED <<data, udp_last, now, pending, polled, disable_polling,
                   udp_task, n_udp, n_poll, sock>>
    /\ UNCHANGED stepVars
    /\ UNCHANGED entities

\* 174: the socket is a local of the coroutine and is closed by no statement;
\* once the task has ended the interpreter may finalize it, at a time the
\* program does not control
SocketFinalized ==
    /\ udp_task \in {"cancelled", "crashed"}
    /\ sock = "open"
    /\ sock' = "closed"
    /\ ev' = Event("gc", NoDgram, <<>>, "socket_finalized", 0, {})
    /\ UNCHANGED <<data, udp_last, now, pending, polled, disable_polling,
                   udp_task, n_udp, n_poll, unload_pc>>
    /\ UNCHANGED stepVars
    /\ UNCHANGED entities

-----------------------------------------------------------------------------
(* Server info (server.py 162-166, 424-431; config_flow.py 15-45) *)

\* a response to GET /info: its status, whether its body is JSON, whether
\* the body has the key XC_SUC, and what the key holds: the info object,
\* an object that lacks fields, or null
InfoOk ==
    [status |-> 200, json |-> "object", envelope |-> TRUE, payload |-> "info",
     name |-> <<" ", "H", "S", "2", " ">>]

InfoResponses ==
    {InfoOk,
     [InfoOk EXCEPT !.name = <<>>],
     [InfoOk EXCEPT !.status = 500],
     [InfoOk EXCEPT !.status = 401, !.envelope = FALSE],
     [InfoOk EXCEPT !.status = 404, !.json = "malformed"],
     [InfoOk EXCEPT !.json = "malformed"],
     [InfoOk EXCEPT !.envelope = FALSE],
     [InfoOk EXCEPT !.payload = "partial"],
     [InfoOk EXCEPT !.payload = "null"]}

\* a get_server_info that looks at the status alone
GetServerInfoRaises_StatusOnly(resp) ==
    IF resp.status # 200 THEN TRUE
    ELSE IF resp.json # "object" THEN TRUE
    ELSE resp.payload # "info"

\* 425-431: get_server_info raises unless the status is 200 and the body
\* is JSON with the key XC_SUC (response.json() raises on another body);
\* 165-166: ServerInfo.from_response raises on a payload that is no
\* complete info object
GetServerInfoRaises(resp) ==
    IF resp.status # 200 THEN TRUE
    ELSE IF resp.json # "object" THEN TRUE
    ELSE IF ~resp.envelope THEN TRUE
    ELSE resp.payload # "info"

\* what the caller of get_server_info holds afterwards
get_server_info(resp) ==
    IF GetServerInfoRaises(resp)
    THEN [raised |-> TRUE]
    ELSE [raised |-> FALSE, info |-> [name |-> fix_mojibake(resp.name)]]

\* config_flow.py 34-45: the user step validates the host by fetching the
\* server info; any exception is shown as cannot_connect
async_step_user(resp) ==
    /\ ev' = Event("config_flow", NoDgram, <<resp>>,
                   IF get_server_info(resp).raised THEN "cannot_connect"
                   ELSE "server_info", 0, {})
    /\ UNCHANGED <<data, udp_last, now, pending, polled, disable_polling,
                   udp_task, n_udp, n_poll>>
    /\ UNCHANGED stepVars
    /\ UNCHANGED teardownVars
    /\ UNCHANGED entities

-----------------------------------------------------------------------------
(* Commands (server.py 494-506, cover.py 124-148, switch.py 91-105) *)

\* an optional argument: <<>> is None, <<v>> is the value v
None == <<>>

\* a send_command that tests the value for truth
send_command_Truthy(device_id, cmd, value) ==
    [XC_FNC |-> "SendGenericCmd",
     id |-> device_id,
     data |-> IF value # None /\ value[1] # 0
              THEN [cmd |-> cmd, value |-> value[1]]
              ELSE [cmd |-> cmd]]

\* 496-504: the body of the request send_command posts
send_command(device_id, cmd, value) ==
    [XC_FNC |-> "SendGenericCmd",
     id |-> device_id,
     data |-> IF value # None
              THEN [cmd |-> cmd, value |-> value[1]]
              ELSE [cmd |-> cmd]]

\* what the gateway does with the request: a 200, an error status, or no
\* answer at all (requests raises)
GatewayAnswers == {"200", "500", "raised"}

\* the call of send_command, the position of the service call that led to
\* it (None unless it is a set-position call) and the request posted
CommandEvent(position, device_id, cmd, value, answer) ==
    [Event("command", NoDgram, <<>>, answer, 0, {}) EXCEPT
        !.call = [device_id |-> device_id, cmd |-> cmd, value |-> value,
                  position |-> position],
        !.sent = send_command(device_id, cmd, value)]

\* a handler that writes the commanded position into the store
PostCommand_Optimistic(position, device_id, cmd, value, answer) ==
    /\ ev' = CommandEvent(position, device_id, cmd, value, answer)
    /\ IF cmd = "moveTo" /\ answer = "200" /\ value # None
          /\ HasDictState(data[device_id])
       THEN data' = [data EXCEPT ![device_id].state.fields["position"] = value[1]]
       ELSE data' = data
    /\ UNCHANGED <<udp_last, now, pending, polled, disable_polling,
                   udp_task, n_udp, n_poll>>
    /\ UNCHANGED stepVars
    /\ UNCHANGED teardownVars
    /\ UNCHANGED entities

\* 505-506 in the executor: the request is posted and the response is
\* returned to a handler that drops it
PostCommand(position, device_id, cmd, value, answer) ==
    /\ ev' = CommandEvent(position, device_id, cmd, value, answer)
    /\ UNCHANGED <<data, udp_last, now, pending, polled, disable_polling,
                   udp_task, n_udp, n_poll>>
    /\ UNCHANGED stepVars
    /\ UNCHANGED teardownVars
    /\ UNCHANGED entities

\* cover.py 43-52: the devices that have a cover entity
HasCover(sid) ==
    /\ sid \in DOMAIN data
    /\ \/ data[sid].type = "IV"
       \/ data[sid].type = "CM" /\ data[sid].deviceType = 0

\* switch.py 36-43: the devices that have an automatic-mode switch
HasSwitch(sid) ==
    /\ sid \in DOMAIN data
    /\ data[sid].type = "CM" /\ data[sid].deviceType = 0

\* cover.py 124-128
async_open_cover(sid, answer) ==
    HasCover(sid) /\ PostCommand(None, sid, "moveUp", None, answer)

\* cover.py 130-134
async_close_cover(sid, answer) ==
    HasCover(sid) /\ PostCommand(None, sid, "moveDown", None, answer)

\* cover.py 136-140
async_stop_cover(sid, answer) ==
    HasCover(sid) /\ PostCommand(None, sid, "stop", None, answer)

\* the sids an entity may have been created for
EntitySids == {"01", "03", "09"}

\* cover.py 142-148
async_set_cover_position(sid, position, answer) ==
    /\ HasCover(sid) /\ data[sid].type = "CM"
    /\ PostCommand(<<position>>, sid, "moveTo", <<100 - position>>, answer)

\* switch.py 91-97
async_turn_on(sid, answer) ==
    HasSwitch(sid) /\ PostCommand(None, sid, "auto", None, answer)

\* switch.py 99-105
async_turn_off(sid, answer) ==
    HasSwitch(sid) /\ PostCommand(None, sid, "manu", None, answer)

\* send_command called with any device id, command name and value
SendAny(device_id, cmd, value, answer) ==
    PostCommand(None, device_id, cmd, value, answer)

-----------------------------------------------------------------------------
(* Cover state (cover.py 90-122).  The positions read here are strings:     *)
(* sequences of one-character strings, "-" for no position.                 *)

\* a cover that reports the stored position as it is
current_cover_position_Raw(dev) ==
    IF dev.type # "CM" THEN None
    ELSE IF dev.state.fields["position"] = Sentinel THEN None
    ELSE <<IntBase10(dev.state.fields["position"])>>

\* 90-96: None, or the inverted position (int() of a string of digits)
current_cover_position(dev) ==
    IF dev.type # "CM" THEN None
    ELSE IF dev.state.fields["position"] = Sentinel THEN None
    ELSE <<100 - IntBase10(dev.state.fields["position"])>>

\* 98-107: "None" (unknown), "True" or "False"
is_closed(dev) ==
    IF dev.type = "IV"
    THEN IF dev.state.str = "closed" THEN "True" ELSE "False"
    ELSE IF current_cover_position(dev) = None THEN "None"
    ELSE IF current_cover_position(dev)[1] = 0 THEN "True"
    ELSE "False"

\* the adapters of a device as the platforms create them from its record
\* (cover.py 41-52, binary_sensor.py 45-59, switch.py 36-43) and as their
\* first state write leaves them: a cover for a Commeo receiver and for an
\* Iveo receiver, and the flag sensors and the switch for a Commeo receiver.
\* Each cached property holds the value its last read computed.
SetupEntities(store) ==
    [sid \in {x \in DOMAIN store : store[x].type \in {"CM", "IV"}} |->
        [_dev |-> store[sid],
         current_cover_position |-> current_cover_position(store[sid]),
         is_closed |-> is_closed(store[sid]),
         is_on |-> [flag \in IF store[sid].type = "CM" THEN FlagNames ELSE {} |->
                       is_on(store, sid, flag)]]]

\* a cover that takes the new record and keeps its cached properties
CoverUpdated_KeepsCache(e, store, sid) ==
    [e EXCEPT !._dev = IF sid \in DOMAIN store THEN store[sid] ELSE e._dev]

\* cover.py 115-122: on a notification the cover takes the record of its
\* device from coordinator.data when there is one, drops its cached
\* properties and writes its state, which computes them from _dev
CoverUpdated(e, store, sid) ==
    LET updated == IF sid \in DOMAIN store THEN store[sid] ELSE e._dev IN
    [e EXCEPT !._dev = updated,
              !.current_cover_position = current_cover_position(updated),
              !.is_closed = is_closed(updated)]

\* binary_sensor.py 104-106, switch.py 74-76: on a notification a flag
\* sensor and the switch drop the cached is_on and write their state, which
\* computes it from coordinator.data
FlagsUpdated(e, store, sid) ==
    [e EXCEPT !.is_on = [flag \in DOMAIN e.is_on |-> is_on(store, sid, flag)]]

\* the cover's handler run by itself; the state it writes is in the event
_handle_coordinator_update(sid) ==
    /\ HasCover(sid)
    /\ ev' = [Event("cover_state", NoDgram, <<>>, is_closed(data[sid]), 0, {})
                 EXCEPT !.call.device_id = sid,
                        !.call.position = current_cover_position(data[sid])]
    /\ entities' = [s \in DOMAIN entities |->
                       IF s = sid THEN CoverUpdated(entities[s], data, s)
                       ELSE entities[s]]
    /\ UNCHANGED <<data, udp_last, now, pending, polled, disable_polling,
                   udp_task, n_udp, n_poll>>
    /\ UNCHANGED stepVars
    /\ UNCHANGED teardownVars

\* a listener pass; an applied delta ends with async_set_updated_data
\* (__init__.py 278), which calls the handlers of all adapters
AdapterReceive(d) ==
    /\ udp_task = "running"
    /\ n_udp < MaxUdp
    /\ n_udp' = n_udp + 1
    /\ UdpEffect(d, UdpOutcome(data, d))
    /\ entities' =
          IF UdpOutcome(data, d) = "applied"
          THEN [sid \in DOMAIN entities |->
                   FlagsUpdated(CoverUpdated(entities[sid], data', sid), data', sid)]
          ELSE entities
    /\ UNCHANGED <<now, pending, polled, disable_polling, n_poll>>
    /\ UNCHANGED stepVars
    /\ UNCHANGED teardownVars

\* the merge of a refresh; the coordinator stores the result and calls the
\* handlers of all adapters
AdapterMerge ==
    /\ pending # {}
    /\ LET raw == CHOOSE x \in pending : TRUE
           new_states == get_states(raw)
       IN
       /\ data' = Reconcile(new_states, udp_last, now)
       /\ polled' = polled \cup DOMAIN new_states
       /\ ev' = Event("poll", NoDgram, raw, "merged", 1,
                      Warnings(new_states, udp_last, now))
    /\ entities' = [sid \in DOMAIN entities |->
                       FlagsUpdated(CoverUpdated(entities[sid], data', sid), data', sid)]
    /\ pending' = {}
    /\ UNCHANGED <<udp_last, now, disable_polling, udp_task, n_udp, n_poll>>
    /\ UNCHANGED stepVars
    /\ UNCHANGED teardownVars

-----------------------------------------------------------------------------
(* The state after async_setup_entry: the first refresh has stored a        *)
(* snapshot, the ledger is empty and the listener task has been created.    *)

InitStore(arrays) ==
    /\ \E raw \in arrays :
          /\ ~GetStatesRaises(raw)
          /\ data = get_states(raw)
          /\ polled = DOMAIN get_states(raw)
    /\ udp_last = EmptyDict
    /\ now = 0
    /\ pending = {}
    /\ disable_polling \in BOOLEAN
    /\ udp_task = "running"
    /\ n_udp = 0
    /\ n_poll = 0
    /\ ev = Event("setup", NoDgram, <<>>, "", 0, {})
    /\ udp_pc = "recv"
    /\ poll_pc = "idle"
    /\ udp_loc = NoUdpLocals
    /\ poll_loc = NoPollLocals
    /\ sock = "open"
    /\ unload_pc = "loaded"

\* the runs that leave the platforms out
InitFrom(arrays) == InitStore(arrays) /\ entities = EmptyDict

Init == InitFrom(InitArrays)

Next ==
    \/ \E d \in Datagrams : UdpReceive(d)
    \/ \E raw \in RawArrays : PollFetch(raw)
    \/ \E raw \in RawArrays : PollFail(raw)
    \/ PollMerge
    \/ ReturnStates
    \/ \E step \in TickSteps : Tick(step)
    \/ UdpRecvError
    \/ \E resp \in BadResponses : PollHttpFail(resp)

Spec == Init /\ [][Next]_vars

\* the flags strings given to the decoder: every string of four characters
\* (the hex digits with one bit set, two hex letters and a character that
\* is no hex digit), the sentinel, and strings of another length
FlagStrings ==
    LET FlagChars == {"0", "1", "2", "4", "8", "a", "f", "z"} IN
    {<<a, b, c, d>> : a \in FlagChars, b \in FlagChars, c \in FlagChars,
                      d \in FlagChars}
    \cup
    {Sentinel, <<>>, <<"1">>, <<"1", "2">>, <<"0", "0", "1">>, <<"z", "z">>,
     <<"0", "0", "0", "0", "1">>, <<"0", "0", "4", "0", "0">>}

\* the responses given to the decoder: one Commeo receiver whose state
\* carries the flags string
FlagResponses ==
    {<<RawReceiver("01", [PollIdle EXCEPT !.flags = f])>> : f \in FlagStrings}

\* refreshes that fetch and decode such responses
DecodeNext ==
    \/ \E raw \in FlagResponses : PollFetch(raw)
    \/ \E raw \in FlagResponses : PollFail(raw)
    \/ PollMerge

DecodeSpec == Init /\ [][DecodeNext]_vars

\* raw records of every kind, each kind under a sid of its own: a receiver,
\* a sensor, an Iveo receiver (its state "open", or "?" as the gateway
\* reports a receiver whose state it does not know), a group, an event, a
\* Commeo record of another deviceType, a Commeo record without deviceType,
\* a record of another type, and a receiver that does not decode; the
\* responses hold one or two such records
KindResponses ==
    LET KindRecords ==
        {RawReceiver("01", PollIdle),
         [type |-> "CM", deviceType |-> "01", sid |-> "05",
          state |-> DictState([value |-> 7])],
         RawIveo,
         [RawIveo EXCEPT !.state = StrState("?")],
         RawGroup,
         RawEvent,
         [type |-> "CM", deviceType |-> "02", sid |-> "06",
          state |-> DictState(PollIdle)],
         [type |-> "CM", sid |-> "07", state |-> DictState(PollIdle)],
         [type |-> "XX", sid |-> "08", state |-> DictState(PollIdle)],
         RawNoFlags}
    IN
    {<<r>> : r \in KindRecords} \cup {<<r, q>> : r \in KindRecords, q \in KindRecords}

\* refreshes that fetch and decode such responses
ClassifyNext ==
    \/ \E raw \in KindResponses : PollFetch(raw)
    \/ \E raw \in KindResponses : PollFail(raw)
    \/ PollMerge

ClassifySpec == Init /\ [][ClassifyNext]_vars

MaxNameLen == 5

\* the group names given to the decoder, of a character of the alphabet,
\* the padding character, and one outside the alphabet
GroupNames ==
    UNION {[1..n -> {"V", "=", "!"}] : n \in 0..MaxNameLen}

\* a response with one group of that name
GroupArray(name) == <<[type |-> "SGROUP", sid |-> "04", name |-> name]>>

GroupResponses ==
    {GroupArray(name) : name \in GroupNames}
        \cup {<<GroupArray(<<"V", "V">>)[1], RawNoFlags>>}

\* refreshes that fetch and decode such responses
GroupNext ==
    \/ \E raw \in GroupResponses : PollFetch(raw)
    \/ \E raw \in GroupResponses : PollFail(raw)
    \/ PollMerge

GroupSpec == Init /\ [][GroupNext]_vars

\* a response with one receiver of that eType
ETypeArray(code) ==
    <<[type |-> "CM", deviceType |-> "00", sid |-> "01", eType |-> code,
       state |-> DictState(PollIdle)]>>

\* every code of the range 0..31, and codes outside it
ETypeResponses ==
    {ETypeArray(code) : code \in (0..31) \cup {32, 33, 40, 64, 255}}
        \cup {<<ETypeArray(5)[1], RawNoFlags>>}

\* refreshes that fetch and decode such responses
ETypeNext ==
    \/ \E raw \in ETypeResponses : PollFetch(raw)
    \/ \E raw \in ETypeResponses : PollFail(raw)
    \/ PollMerge

ETypeSpec == Init /\ [][ETypeNext]_vars

\* the datagrams of the runs that include commands
CommandDatagrams ==
    {Object("01", <<"position">>, DictState([position |-> 50])),
     Object("01", AllSeven, DictState(Bogus)),
     Object("09", <<"position">>, DictState([position |-> 50])),
     [Object("01", <<"position">>, DictState([position |-> 50]))
         EXCEPT !.prefix = "XYZ:"]}

\* the responses of the runs that include commands
CommandArrays ==
    {<<RawReceiver("01", PollIdle), RawReceiver("02", PollIdle), RawIveo, RawGroup>>,
     <<RawReceiver("02", PollIdle), RawIveo, RawGroup>>,
     <<RawReceiver("01", PollIdle), RawNoFlags, RawIveo>>}

\* the handlers together with the commands of the entities
CommandNext ==
    \/ \E d \in CommandDatagrams : UdpReceive(d)
    \/ \E raw \in CommandArrays : PollFetch(raw)
    \/ \E raw \in CommandArrays : PollFail(raw)
    \/ PollMerge
    \/ ReturnStates
    \/ \E step \in TickSteps : Tick(step)
    \/ \E sid \in EntitySids, answer \in GatewayAnswers :
          async_open_cover(sid, answer)
    \/ \E sid \in EntitySids, answer \in GatewayAnswers :
          async_close_cover(sid, answer)
    \/ \E sid \in EntitySids, answer \in GatewayAnswers :
          async_stop_cover(sid, answer)
    \/ \E sid \in EntitySids, position \in {0, 50, 100}, answer \in GatewayAnswers :
          async_set_cover_position(sid, position, answer)
    \/ \E sid \in EntitySids, answer \in GatewayAnswers :
          async_turn_on(sid, answer)
    \/ \E sid \in EntitySids, answer \in GatewayAnswers :
          async_turn_off(sid, answer)
    \/ \E device_id \in {"01", "7f"}, cmd \in {"moveTo", "selfDestruct"},
          value \in {None, <<0>>, <<50>>}, answer \in GatewayAnswers :
          SendAny(device_id, cmd, value, answer)

CommandSpec == Init /\ [][CommandNext]_vars

\* the handlers together with the user step of the config flow
InfoNext ==
    \/ \E d \in CommandDatagrams : UdpReceive(d)
    \/ \E raw \in CommandArrays : PollFetch(raw)
    \/ \E raw \in CommandArrays : PollFail(raw)
    \/ PollMerge
    \/ ReturnStates
    \/ \E step \in TickSteps : Tick(step)
    \/ \E resp \in InfoResponses : async_step_user(resp)

InfoSpec == Init /\ [][InfoNext]_vars

-----------------------------------------------------------------------------
(* The receive loop with its pause (__init__.py 184-194): the listener is   *)
(* at "recv", waiting in sock_recvfrom, or at "sleep", waiting in sleep.    *)

\* a listener that lets the receive error end its task
RecvFailed_Exits ==
    /\ udp_task = "running"
    /\ udp_pc = "recv"
    /\ udp_pc' = "sleep"
    /\ udp_task' = "crashed"
    /\ ev' = Event("udp", NoDgram, <<>>, "recv_error", 0, {})
    /\ UNCHANGED <<data, udp_last, now, pending, polled, disable_polling,
                   n_udp, n_poll, udp_loc, poll_pc, poll_loc>>
    /\ UNCHANGED teardownVars
    /\ UNCHANGED entities

\* 187, 191-193: sock_recvfrom raised; the error is logged and the listener
\* sleeps
RecvFailed ==
    /\ udp_task = "running"
    /\ udp_pc = "recv"
    /\ udp_pc' = "sleep"
    /\ ev' = Event("udp", NoDgram, <<>>, "recv_error", 0, {})
    /\ UNCHANGED <<data, udp_last, now, pending, polled, disable_polling,
                   udp_task, n_udp, n_poll, udp_loc, poll_pc, poll_loc>>
    /\ UNCHANGED teardownVars
    /\ UNCHANGED entities

\* 193-194, 184-187: the sleep is over; the loop continues and waits in
\* sock_recvfrom again
SleepDone ==
    /\ udp_task = "running"
    /\ udp_pc = "sleep"
    /\ udp_pc' = "recv"
    /\ ev' = Event("udp", NoDgram, <<>>, "retry", 0, {})
    /\ UNCHANGED <<data, udp_last, now, pending, polled, disable_polling,
                   udp_task, n_udp, n_poll, udp_loc, poll_pc, poll_loc>>
    /\ UNCHANGED teardownVars
    /\ UNCHANGED entities

\* a datagram is received (187, 196-278) by a listener that waits for one
RetryNext ==
    \/ \E d \in CommandDatagrams : udp_pc = "recv" /\ UdpReceive(d)
    \/ RecvFailed
    \/ SleepDone
    \/ \E raw \in CommandArrays : PollFetch(raw)
    \/ \E raw \in CommandArrays : PollFail(raw)
    \/ PollMerge
    \/ ReturnStates
    \/ \E step \in TickSteps : Tick(step)
    \/ UnloadCancel
    \/ ListenerCancelled

\* the event loop resumes a sleeping listener once its sleep is over
RetrySpec == Init /\ [][RetryNext]_vars /\ WF_vars(SleepDone)

\* the stored positions of the runs that read them: both ends, the middle,
\* and no position
PositionStrings ==
    {<<"0">>, <<"5", "0">>, <<"1", "0", "0">>, Sentinel}

\* a response with a receiver of that position and an Iveo receiver
PositionArray(p) ==
    <<RawReceiver("01", [PollIdle EXCEPT !.position = p]), RawIveo>>

PositionResponses ==
    {PositionArray(p) : p \in PositionStrings}
        \cup {<<PositionArray(<<"0">>)[1], RawNoFlags>>}

\* deltas that write a position
PositionDatagrams ==
    {Object("01", <<"position">>, DictState([position |-> p])) :
        p \in PositionStrings}

\* the platforms have created the adapters of the stored devices
PositionInit ==
    /\ InitStore({PositionArray(p) : p \in PositionStrings})
    /\ entities = SetupEntities(data)

\* the handlers together with the covers: their state and their commands
PositionNext ==
    \/ \E d \in PositionDatagrams : UdpReceive(d)
    \/ \E raw \in PositionResponses : PollFetch(raw)
    \/ \E raw \in PositionResponses : PollFail(raw)
    \/ PollMerge
    \/ ReturnStates
    \/ \E sid \in EntitySids : _handle_coordinator_update(sid)
    \/ \E sid \in EntitySids, position \in {0, 50, 100}, answer \in GatewayAnswers :
          async_set_cover_position(sid, position, answer)

PositionSpec == PositionInit /\ [][PositionNext]_vars

\* the handlers together with the adapters they notify
\* (with a delta and a response that carry the flags 0040)
AdapterNext ==
    \/ \E d \in PositionDatagrams \cup
               {Object("01", <<"position">>,
                       DictState([position |-> <<"5", "0">>,
                                  flags |-> <<"0", "0", "4", "0">>]))} :
          AdapterReceive(d)
    \/ \E raw \in PositionResponses \cup
                 {<<RawReceiver("01", [PollIdle EXCEPT
                                          !.position = <<"0">>,
                                          !.flags = <<"0", "0", "4", "0">>])>>} :
          PollFetch(raw)
    \/ AdapterMerge
    \/ \E step \in TickSteps : Tick(step)

AdapterSpec == PositionInit /\ [][AdapterNext]_vars

\* the datagrams of the runs that include the teardown: applied deltas, an
\* anomaly, an unknown device, and every kind of bad input
TeardownDatagrams ==
    {Object("01", <<"position">>, DictState([position |-> 50])),
     Object("01", <<"position">>,
            DictState([position |-> 50, flags |-> <<"0", "0", "4", "0">>])),
     Object("01", <<"position">>, DictState([flags |-> <<"z", "z">>])),
     Object("01", AllSeven, DictState(Bogus)),
     Object("09", <<"position">>, DictState([position |-> 50])),
     Object("", <<"position">>, DictState([position |-> 50])),
     Object("01", <<>>, StrState("open")),
     [NoDgram EXCEPT !.prefix = "EVT:", !.json = "invalid"],
     [NoDgram EXCEPT !.prefix = "STA:", !.json = "nonobject"],
     [Object("01", <<"position">>, DictState([position |-> 50]))
         EXCEPT !.prefix = "XYZ:"]}

\* the handlers together with async_unload_entry
TeardownNext ==
    \/ \E d \in TeardownDatagrams : UdpReceive(d)
    \/ UdpRecvError
    \/ \E raw \in RawArrays : PollFetch(raw)
    \/ \E raw \in RawArrays : PollFail(raw)
    \/ PollMerge
    \/ ReturnStates
    \/ \E step \in TickSteps : Tick(step)
    \/ UnloadCancel
    \/ ListenerCancelled
    \/ \E unload_ok \in BOOLEAN : UnloadAwait(unload_ok)
    \/ SocketFinalized

TeardownSpec == Init /\ [][TeardownNext]_vars

-----------------------------------------------------------------------------
(* Deltas that arrive while a refresh awaits its snapshot: between the      *)
(* await of 67 and the merge of 73-97 the listener runs, and the clock,     *)
(* which no handler moves, goes on.                                          *)

\* monotonic() advances between two handlers
Elapse(step) ==
    /\ now + step <= MaxTime
    /\ now' = now + step
    /\ UNCHANGED <<data, udp_last, pending, polled, disable_polling, udp_task,
                   n_udp, n_poll, ev>>
    /\ UNCHANGED stepVars
    /\ UNCHANGED teardownVars
    /\ UNCHANGED entities

\* the listener handles datagrams only while a refresh is in flight
FlightNext ==
    \/ \E d \in TeardownDatagrams : pending # {} /\ UdpReceive(d)
    \/ \E raw \in RawArrays : PollFetch(raw)
    \/ PollMerge
    \/ \E step \in TickSteps : Elapse(step)

FlightSpec == Init /\ [][FlightNext]_vars

\* the same runs from one setup: both receivers idle at position 0
SetupArrays ==
    {<<RawReceiver("01", PollIdle), RawReceiver("02", PollIdle), RawIveo,
       RawGroup>>}

SetupSpec == InitFrom(SetupArrays) /\ [][FlightNext]_vars

-----------------------------------------------------------------------------
(* The same handlers statement by statement.  Both are coroutines of one   *)
(* event loop: a coroutine runs until it reaches an await, and another one  *)
(* resumes only while every other coroutine is suspended at an await.       *)
(* The listener awaits at 187 (sock_recvfrom), the refresh at 67            *)
(* (async_add_executor_job); a refresh that is not running is idle.         *)

\* an await between the write of the record (274) and of the ledger (276)
AwaitPoints_InMerge == {"recv", "idle", "executor", "ledger"}

\* the positions at which a coroutine is suspended: 187, 67 and not running
AwaitPoints == {"recv", "idle", "executor"}

\* the listener may take a step: the refresh is suspended
ListenerRuns == udp_task = "running" /\ poll_pc \in AwaitPoints

\* the refresh may take a step: the listener is suspended
RefreshRuns == udp_pc \in AwaitPoints

\* deltas the statement-level listener is given
StepDatagrams ==
    {Object("01", <<"position">>, DictState([position |-> 50])),
     Object("01", <<"position">>,
            DictState([position |-> 50, flags |-> <<"0", "0", "4", "0">>])),
     Object("01", <<>>, DictState(Bogus)),
     Object("01", AllSeven, DictState(Bogus)),
     Object("02", <<"position">>, DictState([position |-> 50])),
     Object("09", <<"position">>, DictState([position |-> 50])),
     Object("01", <<>>, StrState("open"))}

\* 187-272: a datagram arrives; the pass ends at a `continue` or an
\* exception, or reaches the merge with dev and udp_state bound
StepReceive(d) ==
    /\ ListenerRuns
    /\ udp_pc = "recv"
    /\ n_udp < MaxUdp
    /\ n_udp' = n_udp + 1
    /\ IF UdpOutcome(data, d) = "applied"
       THEN /\ udp_pc' = "update"
            /\ udp_loc' = [d |-> d, dev |-> data[d.sid],
                           udp_state |-> NormalizedState(data[d.sid], d.state).fields,
                           data0 |-> data, ledger0 |-> udp_last]
            /\ UNCHANGED <<data, udp_last, udp_task, ev>>
       ELSE /\ UdpEffect(d, UdpOutcome(data, d))
            /\ UNCHANGED <<udp_pc, udp_loc>>
    /\ UNCHANGED <<now, pending, polled, disable_polling, n_poll, poll_pc,
                   poll_loc>>
    /\ UNCHANGED teardownVars
    /\ UNCHANGED entities

\* 274-275: dev["state"].update(udp_state); coordinator.data[sid] = dev
StepUpdate ==
    /\ ListenerRuns
    /\ udp_pc = "update"
    /\ data' = DictUpdate(data,
           [s \in {udp_loc.d.sid} |-> MergeDelta(udp_loc.dev, udp_loc.udp_state)])
    /\ udp_pc' = "ledger"
    /\ UNCHANGED <<udp_last, now, pending, polled, disable_polling, udp_task,
                   n_udp, n_poll, ev, poll_pc, udp_loc, poll_loc>>
    /\ UNCHANGED teardownVars
    /\ UNCHANGED entities

\* 276: store["udp_last"][sid] = {"state": udp_state, "ts": monotonic()}
StepLedger ==
    /\ ListenerRuns
    /\ udp_pc = "ledger"
    /\ udp_last' = DictUpdate(udp_last,
           [s \in {udp_loc.d.sid} |-> LedgerEntry(udp_loc.udp_state, now)])
    /\ udp_pc' = "notify"
    /\ UNCHANGED <<data, now, pending, polled, disable_polling, udp_task,
                   n_udp, n_poll, ev, poll_pc, udp_loc, poll_loc>>
    /\ UNCHANGED teardownVars
    /\ UNCHANGED entities

\* 278: async_set_updated_data; the loop returns to the await at 187
StepNotify ==
    /\ ListenerRuns
    /\ udp_pc = "notify"
    /\ ev' = Event("udp", udp_loc.d, <<>>, "applied", 1, {})
    /\ udp_pc' = "recv"
    /\ udp_loc' = NoUdpLocals
    /\ UNCHANGED <<data, udp_last, now, pending, polled, disable_polling,
                   udp_task, n_udp, n_poll, poll_pc, poll_loc>>
    /\ UNCHANGED teardownVars
    /\ UNCHANGED entities

\* 67: the refresh starts and awaits the executor
StepFetch(raw) ==
    /\ RefreshRuns
    /\ ~disable_polling
    /\ poll_pc = "idle"
    /\ n_poll < MaxPolls
    /\ ~GetStatesRaises(raw)
    /\ n_poll' = n_poll + 1
    /\ pending' = {raw}
    /\ poll_pc' = "executor"
    /\ ev' = Event("fetch", NoDgram, raw, "fetched", 0, {})
    /\ UNCHANGED <<data, udp_last, now, polled, disable_polling, udp_task,
                   n_udp, udp_pc, udp_loc, poll_loc>>
    /\ UNCHANGED teardownVars
    /\ UNCHANGED entities

\* 70-71: get_states raised
StepFail(raw) ==
    /\ RefreshRuns
    /\ ~disable_polling
    /\ poll_pc = "idle"
    /\ n_poll < MaxPolls
    /\ GetStatesRaises(raw)
    /\ n_poll' = n_poll + 1
    /\ ev' = Event("fetch", NoDgram, raw, "failed", 0, {})
    /\ UNCHANGED <<data, udp_last, now, pending, polled, disable_polling,
                   udp_task, n_udp, udp_pc, poll_pc, udp_loc, poll_loc>>
    /\ UNCHANGED teardownVars
    /\ UNCHANGED entities

\* 67, 73-74: the executor's result arrives; now is read once
StepResume ==
    /\ RefreshRuns
    /\ poll_pc = "executor"
    /\ LET raw == CHOOSE x \in pending : TRUE IN
       poll_loc' = [raw |-> raw, new_states |-> get_states(raw),
                    todo |-> DOMAIN get_states(raw), now |-> now,
                    warned |-> {}, data0 |-> data, ledger0 |-> udp_last]
    /\ pending' = {}
    /\ poll_pc' = "loop"
    /\ UNCHANGED <<data, udp_last, now, polled, disable_polling, udp_task,
                   n_udp, n_poll, ev, udp_pc, udp_loc>>
    /\ UNCHANGED teardownVars
    /\ UNCHANGED entities

\* 75-96: one iteration of the loop over new_states.items(), on
\* new_states restricted to that device
StepDevice(sid) ==
    /\ RefreshRuns
    /\ poll_pc = "loop"
    /\ sid \in poll_loc.todo
    /\ LET one == [s \in {sid} |-> poll_loc.new_states[s]] IN
       poll_loc' = [poll_loc EXCEPT
           !.new_states = DictUpdate(@, Reconcile(one, udp_last, poll_loc.now)),
           !.warned = @ \cup Warnings(one, udp_last, poll_loc.now),
           !.todo = @ \ {sid}]
    /\ UNCHANGED <<data, udp_last, now, pending, polled, disable_polling,
                   udp_task, n_udp, n_poll, ev, udp_pc, poll_pc, udp_loc>>
    /\ UNCHANGED teardownVars
    /\ UNCHANGED entities

\* 97: return new_states; the coordinator stores it and calls its listeners
StepReturn ==
    /\ RefreshRuns
    /\ poll_pc = "loop"
    /\ poll_loc.todo = {}
    /\ data' = poll_loc.new_states
    /\ polled' = polled \cup DOMAIN poll_loc.new_states
    /\ ev' = Event("poll", NoDgram, poll_loc.raw, "merged", 1, poll_loc.warned)
    /\ poll_pc' = "idle"
    /\ poll_loc' = NoPollLocals
    /\ UNCHANGED <<udp_last, now, pending, disable_polling, udp_task, n_udp,
                   n_poll, udp_pc, udp_loc>>
    /\ UNCHANGED teardownVars
    /\ UNCHANGED entities

\* 103-104 while the listener is suspended
StepReturnStates ==
    /\ RefreshRuns
    /\ disable_polling
    /\ n_poll < MaxPolls
    /\ n_poll' = n_poll + 1
    /\ ev' = Event("refresh", NoDgram, <<>>, "returned", 1, {})
    /\ UNCHANGED <<data, udp_last, now, pending, polled, disable_polling,
                   udp_task, n_udp>>
    /\ UNCHANGED stepVars
    /\ UNCHANGED teardownVars
    /\ UNCHANGED entities

\* monotonic() advances while both coroutines are suspended
StepTick(step) ==
    /\ udp_pc \in AwaitPoints
    /\ poll_pc \in AwaitPoints
    /\ now + step <= MaxTime
    /\ now' = now + step
    /\ ev' = Event("tick", NoDgram, <<>>, "", 0, {})
    /\ UNCHANGED <<data, udp_last, pending, polled, disable_polling, udp_task,
                   n_udp, n_poll>>
    /\ UNCHANGED stepVars
    /\ UNCHANGED teardownVars
    /\ UNCHANGED entities

StepNext ==
    \/ \E d \in StepDatagrams : StepReceive(d)
    \/ StepUpdate
    \/ StepLedger
    \/ StepNotify
    \/ \E raw \in RawArrays : StepFetch(raw)
    \/ \E raw \in RawArrays : StepFail(raw)
    \/ StepResume
    \/ \E sid \in {"01", "02", "03", "04"} : StepDevice(sid)
    \/ StepReturn
    \/ StepReturnStates
    \/ \E step \in TickSteps : StepTick(step)

StepSpec == Init /\ [][StepNext]_vars

-----------------------------------------------------------------------------
(* Claims about the poll refresh.  In a state whose last handler is the     *)
(* merge of a refresh, ev.raw is the response that was merged, and the      *)
(* ledger and the clock are those the merge read.                           *)

PollSnapshot == get_states(ev.raw)

\* the devices of the merged snapshot that have a status record and a
\* ledger entry
Disputed ==
    {sid \in (DOMAIN PollSnapshot) \cap (DOMAIN udp_last) :
        HasDictState(PollSnapshot[sid])}

PollValueDiffers(sid, k) ==
    GetDiffers(PollSnapshot[sid].state.fields, k, udp_last[sid].state[k])

Age(sid) == now - udp_last[sid].ts

\* C1: after a poll refresh, every field of a ledger delta whose poll value
\* differs from the UDP value and whose delta is at most 20 seconds old
\* (20 included) holds the UDP value, and no mismatch warning names it.
C1_FreshUdpPreferred ==
    ev.op = "poll" =>
        \A sid \in Disputed : \A k \in DOMAIN udp_last[sid].state :
            (PollValueDiffers(sid, k) /\ Age(sid) <= 20) =>
                /\ sid \in DOMAIN data
                /\ FieldIs(data[sid].state.fields, k, udp_last[sid].state[k])
                /\ <<sid, k>> \notin ev.warned

\* a refresh merged a snapshot against a delta exactly 20 seconds old whose
\* position differs from the polled one
C1_Witness ==
    /\ ev.op = "poll"
    /\ \E sid \in Disputed :
          /\ Age(sid) = 20
          /\ "position" \in DOMAIN udp_last[sid].state
          /\ PollValueDiffers(sid, "position")
          /\ data[sid].state.fields["position"] = udp_last[sid].state["position"]

\* C2: after a poll refresh, every field of a ledger delta older than 20
\* seconds whose poll value differs holds the poll value (is absent when the
\* poll has no such field) and a mismatch warning names it; a warning names
\* only such fields.
C2_StalePollKept ==
    ev.op = "poll" =>
        /\ \A sid \in Disputed : \A k \in DOMAIN udp_last[sid].state :
              (PollValueDiffers(sid, k) /\ Age(sid) > 20) =>
                  /\ <<sid, k>> \in ev.warned
                  /\ IF k \in DOMAIN PollSnapshot[sid].state.fields
                     THEN FieldIs(data[sid].state.fields, k,
                                  PollSnapshot[sid].state.fields[k])
                     ELSE k \notin DOMAIN data[sid].state.fields
        /\ \A w \in ev.warned :
              /\ w[1] \in Disputed
              /\ w[2] \in DOMAIN udp_last[w[1]].state
              /\ PollValueDiffers(w[1], w[2])
              /\ Age(w[1]) > 20

\* a refresh merged a snapshot against a delta 21 seconds old whose position
\* differs, kept the polled position and warned
C2_Witness ==
    /\ ev.op = "poll"
    /\ \E sid \in Disputed :
          /\ Age(sid) = 21
          /\ "position" \in DOMAIN udp_last[sid].state
          /\ PollValueDiffers(sid, "position")
          /\ data[sid].state.fields["position"] # udp_last[sid].state["position"]
          /\ <<sid, "position">> \in ev.warned

-----------------------------------------------------------------------------
(* Claims about the listener.  A step whose next state has ev.op = "udp"   *)
(* is one pass of the receive loop over the datagram ev'.dgram.             *)

\* the step handled a prefixed JSON object that names a stored device
DeltaForKnown ==
    /\ ev'.op = "udp"
    /\ ev'.dgram.prefix \in {"STA:", "EVT:"}
    /\ ev'.dgram.json = "object"
    /\ ev'.dgram.sid \in DOMAIN data

\* ... a stored Commeo device with a status record, the state of the
\* datagram being a JSON object
DeltaForCommeo ==
    /\ DeltaForKnown
    /\ data[ev'.dgram.sid].type = "CM"
    /\ HasDictState(data[ev'.dgram.sid])
    /\ ev'.dgram.state.kind = "dict"

\* the three conditions of the anomaly filter, the changed names as a set
AnomalyConditions ==
    /\ SeqToSet(ev'.dgram.changed) = AllValues
    /\ FieldIs(data[ev'.dgram.sid].state.fields, "run_state", 0)
    /\ FieldIs(ev'.dgram.state.fields, "run_state", 0)
    /\ FieldIs(ev'.dgram.state.fields, "position", 0)
    /\ FieldIs(ev'.dgram.state.fields, "current", 100)
    /\ FieldIs(ev'.dgram.state.fields, "target", 100)
    /\ FieldIs(ev'.dgram.state.fields, "timeout", 0)

NothingChanged ==
    /\ data' = data
    /\ udp_last' = udp_last
    /\ ev'.notified = 0

\* the fields of the datagram's state are in the stored record and in the
\* ledger entry, stamped with the clock, and observers were called once
Merged ==
    /\ ev'.dgram.sid \in DOMAIN data'
    /\ ev'.dgram.sid \in DOMAIN udp_last'
    /\ \A k \in DOMAIN ev'.dgram.state.fields :
          /\ FieldIs(data'[ev'.dgram.sid].state.fields, k, ev'.dgram.state.fields[k])
          /\ FieldIs(udp_last'[ev'.dgram.sid].state, k, ev'.dgram.state.fields[k])
    /\ udp_last'[ev'.dgram.sid].ts = now
    /\ ev'.notified = 1

\* C3: a delta whose changed names are, as a set, the seven tracked fields,
\* whose values match the bogus fingerprint, for a Commeo device whose stored
\* run-state is 0, changes neither the store nor the ledger and notifies no
\* observer.
C3_AnomalyDiscarded ==
    [][(DeltaForCommeo /\ AnomalyConditions) => NothingChanged]_vars

\* C3 for a changed list of exactly seven entries
C3_SevenEntriesDiscarded ==
    [][(DeltaForCommeo /\ AnomalyConditions /\ Len(ev'.dgram.changed) = 7)
          => NothingChanged]_vars

\* C4: a delta with a JSON-object state for a stored Commeo device is left
\* out of the store only if all three conditions of the anomaly filter hold;
\* when one of them fails the delta is merged.
C4_OnlyAnomalyDiscarded ==
    [][DeltaForCommeo =>
          /\ ev'.notified = 0 => AnomalyConditions
          /\ ~AnomalyConditions => Merged]_vars

\* a delta with all seven names and the fingerprint but timeout = 1 was
\* merged into a device whose run-state was 0
C4_Witness ==
    /\ ev.op = "udp"
    /\ ev.outcome = "applied"
    /\ ev.dgram.changed = AllSeven
    /\ ev.dgram.state.fields = [Bogus EXCEPT !.timeout = 1]
    /\ data[ev.dgram.sid].state.fields["timeout"] = 1
    /\ data[ev.dgram.sid].state.fields["position"] = 0

\* C5: a datagram whose sid is no key of the store changes nothing, and every
\* sid of the store and of the ledger was delivered by a poll snapshot.
C5_UnknownDropped ==
    /\ []((DOMAIN data) \subseteq polled /\ (DOMAIN udp_last) \subseteq polled)
    /\ [][(ev'.op = "udp" /\ ev'.dgram.sid \notin DOMAIN data)
             => NothingChanged /\ DOMAIN data' = DOMAIN data]_vars

\* a delta for a sid no snapshot delivered was handled; the sid is in
\* neither map
C5_Witness ==
    /\ ev.op = "udp"
    /\ ev.dgram.json = "object"
    /\ ev.dgram.sid = "09"
    /\ ev.dgram.state.kind = "dict"
    /\ "09" \notin DOMAIN data
    /\ "09" \notin DOMAIN udp_last

\* C6: after a delta is applied to device s, every field of the delta holds
\* the delta's value; every other field of s keeps its value (the decoded
\* flags, which the listener attaches to a delta that carries flags, are a
\* field of the applied delta); every other device is unchanged.
C6_FieldOverwrite ==
    [][(ev'.op = "udp" /\ ev'.outcome = "applied") =>
          LET s == ev'.dgram.sid
              delta == ev'.dgram.state.fields
              old == data[s].state.fields
              new == data'[s].state.fields
              attached == IF "flags" \in DOMAIN delta THEN {"parsed_flags"} ELSE {}
          IN
          /\ DOMAIN data' = DOMAIN data
          /\ \A o \in (DOMAIN data) \ {s} : data'[o] = data[o]
          /\ data'[s].type = data[s].type
          /\ \A k \in DOMAIN delta : FieldIs(new, k, delta[k])
          /\ \A k \in (DOMAIN old) \ ((DOMAIN delta) \cup attached) :
                FieldIs(new, k, old[k])
          /\ (DOMAIN new) \subseteq ((DOMAIN old) \cup (DOMAIN delta) \cup attached)]_vars

\* a delta that carries only a position was applied to a device that has
\* other fields, next to another Commeo device
C6_Witness ==
    /\ ev.op = "udp"
    /\ ev.outcome = "applied"
    /\ DOMAIN ev.dgram.state.fields = {"position"}
    /\ data[ev.dgram.sid].state.fields["position"] = 50
    /\ "run_state" \in DOMAIN data[ev.dgram.sid].state.fields
    /\ \E o \in (DOMAIN data) \ {ev.dgram.sid} : HasDictState(data[o])

\* C7: a pass of the listener that merges a delta into device s sets the
\* ledger entry of s to that delta and the current clock, leaves the other
\* entries alone and notifies observers once; a pass that merges nothing
\* writes no ledger entry and notifies nobody.
C7_RecordedAndAnnounced ==
    [][ev'.op = "udp" =>
          IF ev'.outcome = "applied"
          THEN /\ Merged
               /\ \A k \in DOMAIN udp_last'[ev'.dgram.sid].state :
                     FieldIs(data'[ev'.dgram.sid].state.fields, k,
                             udp_last'[ev'.dgram.sid].state[k])
               /\ (DOMAIN udp_last'[ev'.dgram.sid].state) \subseteq
                     ((DOMAIN ev'.dgram.state.fields) \cup {"parsed_flags"})
               /\ DOMAIN udp_last' = (DOMAIN udp_last) \cup {ev'.dgram.sid}
               /\ \A o \in (DOMAIN udp_last) \ {ev'.dgram.sid} :
                     udp_last'[o] = udp_last[o]
          ELSE NothingChanged]_vars

\* a delta was applied at clock 20 and its ledger entry carries that stamp
C7_Witness ==
    /\ ev.op = "udp"
    /\ ev.outcome = "applied"
    /\ ev.notified = 1
    /\ now = 20
    /\ udp_last[ev.dgram.sid].ts = 20
    /\ "position" \in DOMAIN udp_last[ev.dgram.sid].state

\* C8: a sid that is a key of the store stays a key.
C8_NoImplicitDeletion ==
    [][(DOMAIN data) \subseteq (DOMAIN data')]_vars

\* the sids of the records of a response that decode
Decodable(raw) ==
    {raw[i].sid : i \in {j \in 1..Len(raw) :
        IsDeviceRecord(raw[j]) /\ ~FromResponseRaises(raw[j])}}

\* C9: get_states never fails on a malformed record; its snapshot holds
\* exactly the devices of the records that decode.
C9_PartialFailureTolerated ==
    ev.op = "fetch" =>
        /\ ev.outcome = "fetched"
        /\ DOMAIN get_states(ev.raw) = Decodable(ev.raw)

-----------------------------------------------------------------------------
(* Claims about interleavings, stated of the statement-level steps *)

\* the listener is between binding dev (215) and the notification (278)
ListenerMerging == udp_pc \in {"update", "ledger", "notify"}

\* the refresh is between reading the ledger (73) and its return (97)
RefreshMerging == poll_pc = "loop"

\* the record as the listener's merge leaves it, from the store it started on
RecordAfterDelta ==
    DictUpdate(udp_loc.data0,
        [s \in {udp_loc.d.sid} |->
            MergeDelta(udp_loc.data0[s], udp_loc.udp_state)])

\* the ledger as the listener's merge leaves it
LedgerAfterDelta ==
    DictUpdate(udp_loc.ledger0,
        [s \in {udp_loc.d.sid} |-> LedgerEntry(udp_loc.udp_state, now)])

\* C10: merges are serialized.  No state has the listener and the refresh
\* both part-way through a merge; while the listener merges, the store is
\* the store it started on plus exactly the writes it has made so far;
\* while the refresh merges, the store is the store it started on and the
\* devices it has handled are reconciled against that ledger; and once a
\* merge has completed, the record and the ledger show the whole merge.
C10_MergesSerialized ==
    /\ ~(ListenerMerging /\ RefreshMerging)
    /\ udp_pc = "update" =>
          data = udp_loc.data0 /\ udp_last = udp_loc.ledger0
    /\ udp_pc = "ledger" =>
          data = RecordAfterDelta /\ udp_last = udp_loc.ledger0
    /\ udp_pc = "notify" =>
          data = RecordAfterDelta /\ udp_last = LedgerAfterDelta
    /\ RefreshMerging =>
          /\ data = poll_loc.data0
          /\ udp_last = poll_loc.ledger0
          /\ \A sid \in DOMAIN poll_loc.new_states :
                poll_loc.new_states[sid] =
                    IF sid \in poll_loc.todo
                    THEN get_states(poll_loc.raw)[sid]
                    ELSE Reconcile(get_states(poll_loc.raw), poll_loc.ledger0,
                                   poll_loc.now)[sid]
    /\ (ev.op = "udp" /\ ev.outcome = "applied" /\ udp_pc = "recv") =>
          /\ ev.dgram.sid \in DOMAIN data
          /\ ev.dgram.sid \in DOMAIN udp_last
          /\ \A k \in DOMAIN udp_last[ev.dgram.sid].state :
                FieldIs(data[ev.dgram.sid].state.fields, k,
                        udp_last[ev.dgram.sid].state[k])
    /\ (ev.op = "poll" /\ poll_pc = "idle" /\ udp_pc = "recv") =>
          data = Reconcile(get_states(ev.raw), udp_last, now)

\* a delta is part-way through its merge (record written, ledger not yet)
\* while a refresh is suspended in the executor
C10_Witness ==
    /\ udp_pc = "ledger"
    /\ poll_pc = "executor"
    /\ data # udp_loc.data0

-----------------------------------------------------------------------------
(* Claims about the listener's lifetime, stated of the runs with teardown *)

\* C11: in every state in which cancellation has not been requested, the
\* listener task is still running its receive loop, whatever datagrams and
\* receive errors it has been given.
C11_ListenerNeverExits ==
    unload_pc = "loaded" => udp_task = "running"

\* C12: a listener that has ended by cancellation has its socket closed.
C12_CleanCancellation ==
    udp_task = "cancelled" => sock = "closed"

\* C13: a pass of the listener over a datagram that has no recognised
\* prefix, or whose payload is not parseable JSON, or whose JSON object
\* carries no sid, leaves the store and the ledger as they were and
\* notifies no observer.
C13_RejectedChangeNothing ==
    [][(/\ ev'.op = "udp"
        /\ ev'.outcome \notin {"recv_error", "cancelled"}
        /\ \/ ev'.dgram.prefix \notin {"STA:", "EVT:"}
           \/ ev'.dgram.json = "invalid"
           \/ ev'.dgram.json = "object" /\ ev'.dgram.sid = "")
       => NothingChanged]_vars

\* a datagram with an unrecognised prefix that otherwise is a delta for a
\* stored device was passed over, after a delta had been applied
C13_Witness ==
    /\ ev.op = "udp"
    /\ ev.outcome = "bad_prefix"
    /\ ev.dgram.sid \in DOMAIN data
    /\ ev.notified = 0
    /\ udp_last # EmptyDict

-----------------------------------------------------------------------------
(* Claims about failed polls *)

\* the ways a poll cycle fails
PollFailures == {"connectivity", "no_data", "decode_error"}

\* C14: a refresh that fails (non-200 status, malformed body, missing
\* envelope, no data, or a record that does not decode) ends in UpdateFailed
\* and leaves the store and the ledger exactly as they were.
C14_FailedPollKeepsState ==
    [][(\/ ev'.op = "request" /\ ev'.outcome \in PollFailures
        \/ ev'.op = "fetch" /\ ev'.outcome = "failed")
       => (data' = data /\ udp_last' = udp_last)]_vars

\* a refresh failed on the HTTP layer after a delta had been applied, and
\* the delta is still in the store and in the ledger
C14_Witness ==
    /\ ev.op = "request"
    /\ ev.outcome = "connectivity"
    /\ "01" \in DOMAIN udp_last
    /\ "01" \in DOMAIN data
    /\ FieldIs(data["01"].state.fields, "position", 50)
    /\ FieldIs(udp_last["01"].state, "position", 50)

-----------------------------------------------------------------------------
(* Claims about status flags *)

\* C16: a delta with a flags field that is applied to a Commeo device is
\* merged and recorded with the decoded flags in place of the raw flags
\* field: the ledger entry has the decoded record and no raw flags, and the
\* store does not hold the delta's raw flags value.
C16_FlagsDecodedBeforeMerge ==
    [][(/\ ev'.op = "udp"
        /\ ev'.outcome = "applied"
        /\ data[ev'.dgram.sid].type = "CM"
        /\ "flags" \in DOMAIN ev'.dgram.state.fields)
       => (/\ "parsed_flags" \in DOMAIN udp_last'[ev'.dgram.sid].state
           /\ "flags" \notin DOMAIN udp_last'[ev'.dgram.sid].state
           /\ ~FieldIs(data'[ev'.dgram.sid].state.fields, "flags",
                       ev'.dgram.state.fields["flags"]))]_vars

\* the flags string of the response the last refresh step was given
GivenFlags == ev.raw[1].state.fields["flags"]

\* four hex digits
IsHexWord(f) ==
    IF Len(f) = 4 THEN \A i \in 1..4 : IsHexChar(f[i]) ELSE FALSE

\* the bit layout of the eleven flags of a 16-bit value
FlagLayout(v) ==
    [timeout |-> Bit(v, 0),
     overload |-> Bit(v, 1),
     obstacle |-> Bit(v, 2),
     emergency_alarm |-> Bit(v, 3),
     sensor_learned |-> Bit(v, 4),
     sensor_connected |-> ~Bit(v, 5),
     automatic_mode |-> Bit(v, 6),
     cc_timeout |-> Bit(v, 7),
     wind_alarm |-> Bit(v, 8),
     rain_alarm |-> Bit(v, 9),
     frost_alarm |-> Bit(v, 10)]

\* C17: for every flags string of four hex digits, with value v, the
\* decode succeeds and the decoded record is the layout of v: timeout is
\* bit 0, ..., sensor_connected is the negation of bit 5, ..., frost_alarm is
\* bit 10, whatever bits 11-15 are.
C17_FlagBitLayout ==
    /\ (ev.op = "fetch" /\ IsHexWord(GivenFlags)) => ev.outcome = "fetched"
    /\ (ev.op = "poll" /\ IsHexWord(GivenFlags)) =>
          /\ "attributes" \in DOMAIN data["01"].state.fields
          /\ data["01"].state.fields["attributes"] = FlagLayout(HexWord(GivenFlags))

\* C18: a flags string that is not the sentinel and is not four hex digits
\* (another length, or four characters with one that is no hex digit) makes
\* the decode fail, and no decoded record is produced.
C18_MalformedFlagsRejected ==
    (ev.op = "fetch" /\ GivenFlags # Sentinel /\ ~IsHexWord(GivenFlags))
        => ev.outcome = "failed"

\* C19: decoding the sentinel does not fail and produces no flags record:
\* the stored state has the raw sentinel and no decoded record, and every
\* flag sensor reports unknown; every other string that decodes produces a
\* record, so the sentinel's result differs from the record of a decoded
\* value, the all-false one included.
C19_SentinelIsAbsent ==
    /\ (ev.op = "fetch" /\ GivenFlags = Sentinel) => ev.outcome = "fetched"
    /\ (ev.op = "poll" /\ GivenFlags = Sentinel) =>
          /\ "attributes" \notin DOMAIN data["01"].state.fields
          /\ data["01"].state.fields["flags"] = Sentinel
          /\ \A flag \in FlagNames : is_on(data, "01", flag) = "None"
    /\ (ev.op = "poll" /\ GivenFlags # Sentinel) =>
          "attributes" \in DOMAIN data["01"].state.fields

\* a response whose receiver has sentinel flags was decoded and stored
C19_Witness ==
    /\ ev.op = "poll"
    /\ GivenFlags = Sentinel
    /\ "01" \in DOMAIN data

-----------------------------------------------------------------------------
(* Claims about the classification of raw records *)

\* the variant a raw record is to be decoded to, "none" for no entry
ExpectedVariant(r) ==
    IF r.type = "CM"
    THEN IF "deviceType" \notin DOMAIN r THEN "none"
         ELSE IF r.deviceType = "00" THEN "CommeoReceiver"
         ELSE IF r.deviceType = "01" THEN "CommeoSensor"
         ELSE "none"
    ELSE IF r.type = "IV" THEN "IveoReceiver"
    ELSE IF r.type = "SGROUP" THEN "DeviceGroup"
    ELSE "none"

\* the variant the store holds under the record's sid, "none" for no entry
StoredVariant(r) ==
    IF "sid" \notin DOMAIN r THEN "none"
    ELSE IF r.sid \notin DOMAIN data THEN "none"
    ELSE IF data[r.sid].type = "CM"
         THEN IF data[r.sid].deviceType = 0 THEN "CommeoReceiver"
              ELSE "CommeoSensor"
    ELSE IF data[r.sid].type = "IV" THEN "IveoReceiver"
    ELSE "DeviceGroup"

\* C20: after a refresh has stored the snapshot of a response, every record
\* of the response has under its sid the variant its type and deviceType
\* select (CM/00 receiver, CM/01 sensor, IV Iveo receiver, SGROUP group),
\* and a record of type EVENT, a CM record of another or no deviceType and
\* a record of another type have no entry; the snapshot has no other entry.
C20_RecordClassification ==
    ev.op = "poll" =>
        /\ \A i \in 1..Len(ev.raw) :
              StoredVariant(ev.raw[i]) = ExpectedVariant(ev.raw[i])
        /\ \A sid \in DOMAIN data :
              \E i \in 1..Len(ev.raw) :
                  /\ ExpectedVariant(ev.raw[i]) # "none"
                  /\ ev.raw[i].sid = sid

\* a response with a sensor and a Commeo record of another deviceType was
\* stored: the sensor has an entry, the other record has none
C20_Witness ==
    /\ ev.op = "poll"
    /\ Len(ev.raw) = 2
    /\ ExpectedVariant(ev.raw[1]) = "CommeoSensor"
    /\ ev.raw[2].type = "CM"
    /\ ExpectedVariant(ev.raw[2]) = "none"
    /\ DOMAIN data = {"05"}

-----------------------------------------------------------------------------
(* Claims about commands *)

\* C21: whatever device id, command name and optional value send_command
\* is called with, the request it posts is exactly the function
\* SendGenericCmd, the device id, and a data record with the command name
\* and, exactly when a value was given (0 included), the value.
C21_CommandEnvelope ==
    ev.op = "command" =>
        /\ DOMAIN ev.sent = {"XC_FNC", "id", "data"}
        /\ ev.sent.XC_FNC = "SendGenericCmd"
        /\ ev.sent.id = ev.call.device_id
        /\ ev.sent.data.cmd = ev.call.cmd
        /\ IF ev.call.value = <<>>
           THEN DOMAIN ev.sent.data = {"cmd"}
           ELSE /\ DOMAIN ev.sent.data = {"cmd", "value"}
                /\ ev.sent.data.value = ev.call.value[1]

\* a command outside every vocabulary was posted with the value 0
C21_Witness ==
    /\ ev.op = "command"
    /\ ev.call.cmd = "selfDestruct"
    /\ ev.call.device_id = "7f"
    /\ ev.call.value = <<0>>
    /\ ev.sent.data.value = 0

\* C22: a command, whatever the gateway answers, leaves the reconciled
\* state map and the Recency Ledger as they are; the store changes only in
\* a poll merge or a UDP merge.
C22_CommandsKeepStore ==
    [][/\ ev'.op = "command" => data' = data /\ udp_last' = udp_last
       /\ (data' # data \/ udp_last' # udp_last) =>
              \/ ev'.op = "poll" /\ ev'.outcome = "merged"
              \/ ev'.op = "udp" /\ ev'.outcome = "applied"]_vars

\* a set-position command was answered with 200 for a device whose stored
\* position is not the commanded one
C22_Witness ==
    /\ ev.op = "command"
    /\ ev.call.cmd = "moveTo"
    /\ ev.outcome = "200"
    /\ ev.call.device_id \in DOMAIN data
    /\ data[ev.call.device_id].state.fields["position"] # ev.call.value[1]

-----------------------------------------------------------------------------
(* Claims about the fields of the decoded records *)

\* the name of the group of a response of GroupSpec
GivenName == ev.raw[1].name

\* well-formed base64: groups of four characters of the alphabet, the last
\* group ending in at most two padding characters
IsBase64(name) ==
    /\ Len(name) % 4 = 0
    /\ \A i \in 1..Len(name) :
          \/ IsBase64Char(name[i])
          \/ name[i] = "=" /\ i > Len(name) - 2
                /\ \A j \in (i + 1)..Len(name) : name[j] = "="

\* C23: a group record always decodes, whatever its name; a name that is
\* well-formed base64 is stored as its decoded text, and a name that is
\* not is stored as the empty name, never as it came.
C23_GroupNameDegrades ==
    /\ (ev.op = "fetch" /\ Len(ev.raw) = 1) => ev.outcome = "fetched"
    /\ (ev.op = "poll" /\ Len(ev.raw) = 1) =>
          IF IsBase64(GivenName)
          THEN data["04"].name = DecodeUtf8(b64decode(GivenName).bytes)
          ELSE data["04"].name = <<>>

\* what holds of the names: a group record always decodes, and its stored
\* name is the decoded text when the name is well-formed base64
C23_DecodesWhenWellFormed ==
    /\ (ev.op = "fetch" /\ Len(ev.raw) = 1) => ev.outcome = "fetched"
    /\ (ev.op = "poll" /\ Len(ev.raw) = 1 /\ IsBase64(GivenName)) =>
          data["04"].name = DecodeUtf8(b64decode(GivenName).bytes)

\* the coarse states of an Iveo receiver
IveoStates == {"open", "closed", "unknown"}

\* C24: the state of every Iveo receiver in the store is one of open,
\* closed and unknown; another wire value is never stored as it came.
C24_IveoStateDomain ==
    \A sid \in DOMAIN data :
        data[sid].type = "IV" =>
            /\ data[sid].state.kind = "str"
            /\ data[sid].state.str \in IveoStates

-----------------------------------------------------------------------------
(* Claims about the UDP-only mode *)

\* C25: with polling disabled no step fetches or merges a snapshot, every
\* step that changes the state map is an applied UDP delta, and a refresh
\* of the coordinator leaves the state map, with every field a delta
\* wrote, as it is.
C25_UdpOnlyMode ==
    [][disable_polling =>
          /\ ev'.op \notin {"fetch", "poll", "request"}
          /\ data' # data => ev'.op = "udp" /\ ev'.outcome = "applied"
          /\ ev'.op = "refresh" => data' = data]_vars

\* with polling disabled, a refresh returned after a delta had written the
\* position of device 01, and the written position is still stored
C25_Witness ==
    /\ disable_polling
    /\ ev.op = "refresh"
    /\ "01" \in DOMAIN udp_last
    /\ "position" \in DOMAIN udp_last["01"].state
    /\ udp_last["01"].state["position"] = 50
    /\ data["01"].state.fields["position"] = 50

-----------------------------------------------------------------------------
(* Claims about the receiver type codes *)

\* the code of the receiver of a response of ETypeSpec
GivenCode == ev.raw[1].eType

\* C26: a receiver whose eType code is in 0..31 is stored with the label
\* of the table for the codes 0-7 and 16-21, with "Unknown Motor Type"
\* for 8-15 and with "Unknown Switch Type" for 22-31; no code of the range
\* gives "Unknown" or no label.
C26_ETypeLabels ==
    (ev.op = "poll" /\ GivenCode \in 0..31) =>
        /\ "eType" \in DOMAIN data["01"]
        /\ data["01"].eType # "Unknown"
        /\ GivenCode \in (0..7) \cup (16..21) =>
              data["01"].eType = ETYPE_LABELS[GivenCode]
        /\ GivenCode \in 8..15 => data["01"].eType = "Unknown Motor Type"
        /\ GivenCode \in 22..31 => data["01"].eType = "Unknown Switch Type"

\* a receiver of the code 12, which the table does not have, was stored
C26_Witness ==
    /\ ev.op = "poll"
    /\ GivenCode = 12
    /\ data["01"].eType = "Unknown Motor Type"
    /\ data["01"].eType_code = 12

-----------------------------------------------------------------------------
(* Claims about the server info *)

\* the response the last fetch of the server info was given
GivenInfo == ev.raw[1]

\* the body of the response has the envelope key
HasEnvelopeKey(resp) == resp.json = "object" /\ resp.envelope

\* C27: a response of another status than 200, or of status 200 without
\* the envelope key in its body, makes the fetch of the server info fail
\* with the connectivity error; a ServerInfo is returned only for a
\* response of status 200 with the envelope key.
C27_ServerInfoFailure ==
    ev.op = "config_flow" =>
        /\ (GivenInfo.status # 200 \/ ~HasEnvelopeKey(GivenInfo)) =>
              ev.outcome = "cannot_connect"
        /\ ev.outcome = "server_info" =>
              GivenInfo.status = 200 /\ HasEnvelopeKey(GivenInfo)
        /\ ev.outcome \in {"cannot_connect", "server_info"}

\* a response of status 200 whose JSON body has no envelope key was
\* answered with the connectivity error
C27_Witness ==
    /\ ev.op = "config_flow"
    /\ GivenInfo.status = 200
    /\ GivenInfo.json = "object"
    /\ ~GivenInfo.envelope
    /\ ev.outcome = "cannot_connect"

-----------------------------------------------------------------------------
(* Claims about receive errors *)

\* a step that is a receive error leaves the state map and the ledger and
\* takes the listener to its pause
ErrorKeepsStore ==
    ev'.outcome = "recv_error" =>
        data' = data /\ udp_last' = udp_last /\ udp_pc' = "sleep"

\* a step that receives a datagram ends as the datagram and the store say
DatagramTreatedAlike ==
    (ev'.op = "udp" /\ ev'.dgram # NoDgram) =>
        ev'.outcome = UdpOutcome(data, ev'.dgram)

\* C28: a receive error changes neither the state map nor the ledger; the
\* listener then pauses and, unless it is cancelled, waits for a datagram
\* again; a datagram received by a listener that waits, after an error or
\* not, is treated as its content and the store say.
C28_ReceiveErrorsRetried ==
    /\ [][ErrorKeepsStore /\ DatagramTreatedAlike]_vars
    /\ (udp_pc = "sleep") ~>
          (udp_pc = "recv" \/ udp_task \in {"cancelling", "cancelled"})

\* after a receive error and its pause the listener waits for a datagram
\* again, and a delta it had applied before is still in the ledger
C28_Witness ==
    /\ ev.outcome = "retry"
    /\ udp_pc = "recv"
    /\ udp_task = "running"
    /\ "01" \in DOMAIN udp_last

-----------------------------------------------------------------------------
(* Claims about the Recency Ledger *)

\* only a step that applies a UDP delta changes the ledger
OnlyDeltasWrite ==
    udp_last' # udp_last => ev'.op = "udp" /\ ev'.outcome = "applied"

\* no step removes an entry of the ledger
NoEntryRemoved == \A sid \in DOMAIN udp_last : sid \in DOMAIN udp_last'

\* in a poll merge every entry of at most 20 seconds, of a device that the
\* snapshot has with a status record, decides the fields it holds
FreshEntriesDecide ==
    (ev'.op = "poll" /\ ev'.outcome = "merged") =>
        \A sid \in (DOMAIN udp_last) \cap (DOMAIN data') :
            (HasDictState(data'[sid]) /\ now - udp_last[sid].ts <= 20) =>
                \A k \in DOMAIN udp_last[sid].state :
                    data'[sid].state.fields[k] = udp_last[sid].state[k]

\* C29: the ledger is changed only by a step that applies a UDP delta (a
\* refresh that succeeds or fails, a datagram that is discarded or
\* rejected, a command and the clock leave it as it is), no step removes
\* an entry, and an entry of at most 20 seconds still decides its fields
\* in a poll merge.
C29_LedgerOnlyByDeltas ==
    [][OnlyDeltasWrite /\ NoEntryRemoved /\ FreshEntriesDecide]_vars

\* a poll merge found an entry of more than 20 seconds: the entry is still
\* in the ledger, and the stored position is the polled one, not the
\* entry's
C29_Witness ==
    /\ ev.op = "poll"
    /\ "01" \in DOMAIN udp_last
    /\ now - udp_last["01"].ts > 20
    /\ "01" \in DOMAIN data
    /\ udp_last["01"].state["position"] = 50
    /\ data["01"].state.fields["position"] # 50

-----------------------------------------------------------------------------
(* Claims about the position of a cover *)

\* the number a stored position stands for
PositionValue(p) ==
    CASE p = <<"0">> -> 0
      [] p = <<"5", "0">> -> 50
      [] p = <<"1", "0", "0">> -> 100

\* the stored position of a Commeo cover
StoredPosition(sid) == data[sid].state.fields["position"]

\* the cover of a Commeo receiver reports 100 - p for the stored position
\* p, closed exactly when that is 0, and nothing for the sentinel
ReportsInverted ==
    (ev.op = "cover_state" /\ data[ev.call.device_id].type = "CM") =>
        IF StoredPosition(ev.call.device_id) = Sentinel
        THEN ev.call.position = None /\ ev.outcome = "None"
        ELSE /\ ev.call.position =
                    <<100 - PositionValue(StoredPosition(ev.call.device_id))>>
             /\ ev.outcome # "None"
             /\ ev.outcome = "True" <=>
                    100 - PositionValue(StoredPosition(ev.call.device_id)) = 0

\* commanding the position x sends moveTo with the value 100 - x, and
\* commanding the position the cover reports sends the stored position
SendsInverted ==
    (ev.op = "command" /\ ev.call.position # None) =>
        /\ ev.sent.data.cmd = "moveTo"
        /\ ev.sent.data.value = 100 - ev.call.position[1]
        /\ ev.call.position = current_cover_position(data[ev.call.device_id]) =>
               ev.sent.data.value = PositionValue(StoredPosition(ev.call.device_id))

\* C30: a Commeo cover with the stored position p reports 100 - p and
\* closed exactly when 100 - p = 0, and neither for the sentinel; a
\* set-position command of x sends moveTo with 100 - x, so that commanding
\* the reported position sends p.
C30_PositionRoundTrip == ReportsInverted /\ SendsInverted

\* the reported position of a cover whose stored position is 100 was
\* commanded: moveTo was sent with the value 100
C30_Witness ==
    /\ ev.op = "command"
    /\ ev.call.position = <<0>>
    /\ StoredPosition(ev.call.device_id) = <<"1", "0", "0">>
    /\ current_cover_position(data[ev.call.device_id]) = <<0>>
    /\ is_closed(data[ev.call.device_id]) = "True"
    /\ ev.sent.data.value = 100

-----------------------------------------------------------------------------
(* Claims about the frame of the poll merge *)

\* the fields of the merged snapshot's device that its ledger delta, if it
\* has one, does not name
Undisputed(sid) ==
    IF sid \in Disputed
    THEN (DOMAIN PollSnapshot[sid].state.fields) \ (DOMAIN udp_last[sid].state)
    ELSE DOMAIN PollSnapshot[sid].state.fields

\* C31: after a poll refresh the store holds the devices of the snapshot;
\* every field of a device that its own ledger delta does not name, and
\* every field of a device without a ledger entry, holds the snapshot's
\* value; a device without a status record is stored as polled; and no
\* device has a field that neither its snapshot nor its own delta holds.
C31_OnlyDisputedTouched ==
    ev.op = "poll" =>
        /\ DOMAIN data = DOMAIN PollSnapshot
        /\ \A sid \in DOMAIN PollSnapshot :
              IF HasDictState(PollSnapshot[sid])
              THEN /\ HasDictState(data[sid])
                   /\ [data[sid] EXCEPT !.state = PollSnapshot[sid].state]
                          = PollSnapshot[sid]
                   /\ \A k \in Undisputed(sid) :
                          FieldIs(data[sid].state.fields, k,
                                  PollSnapshot[sid].state.fields[k])
                   /\ DOMAIN data[sid].state.fields \subseteq
                          (DOMAIN PollSnapshot[sid].state.fields) \cup
                          (IF sid \in Disputed
                           THEN DOMAIN udp_last[sid].state ELSE {})
              ELSE data[sid] = PollSnapshot[sid]

\* a refresh merged a snapshot of two receivers against a fresh delta of
\* receiver 01 only: 01 holds the UDP position and the polled run-state,
\* and 02, whose polled position differs from that delta, is stored as
\* polled
C31_Witness ==
    /\ ev.op = "poll"
    /\ "01" \in Disputed
    /\ "02" \in DOMAIN PollSnapshot
    /\ "02" \notin DOMAIN udp_last
    /\ Age("01") <= 20
    /\ "position" \in DOMAIN udp_last["01"].state
    /\ "run_state" \notin DOMAIN udp_last["01"].state
    /\ PollValueDiffers("01", "position")
    /\ data["01"].state.fields["position"] = udp_last["01"].state["position"]
    /\ data["01"].state.fields["run_state"] =
           PollSnapshot["01"].state.fields["run_state"]
    /\ PollSnapshot["02"].state.fields["position"] #
           udp_last["01"].state["position"]
    /\ data["02"] = PollSnapshot["02"]

-----------------------------------------------------------------------------
(* Claims about deltas and refreshes that overlap.  In a step whose next    *)
(* state has ev.op = "poll" and whose state has ev.op = "udp", the delta    *)
(* ev.dgram was the last handler before the merge, and it ran while the     *)
(* refresh awaited its snapshot when `pending` holds that snapshot.         *)

\* the last handler applied a delta while a refresh was in flight
DeltaInFlight ==
    /\ ev.op = "udp"
    /\ ev.outcome = "applied"
    /\ pending # {}

\* the step merges the snapshot in flight, which has a status record for
\* the device of the delta, at most 20 seconds after the delta
MergedInWindow ==
    /\ ev'.op = "poll"
    /\ ev.dgram.sid \in DOMAIN get_states(ev'.raw)
    /\ HasDictState(get_states(ev'.raw)[ev.dgram.sid])
    /\ now - udp_last[ev.dgram.sid].ts <= 20

\* every field of the delta holds the UDP value after the merge
DeltaSurvives ==
    /\ ev.dgram.sid \in DOMAIN data'
    /\ \A k \in DOMAIN ev.dgram.state.fields :
          FieldIs(data'[ev.dgram.sid].state.fields, k, ev.dgram.state.fields[k])

\* C32: when a delta for a device is applied after a refresh has taken its
\* snapshot and the merge of that refresh runs at most 20 seconds later,
\* every field of the delta holds the UDP value after the merge.
C32_InFlightDeltaSurvives ==
    [][(DeltaInFlight /\ MergedInWindow) => DeltaSurvives]_vars

\* a refresh took a snapshot in which receiver 01 is idle at position 0;
\* then the delta position 50 was applied; exactly 20 seconds later the
\* merge ran and the store holds position 50
C32_Witness ==
    /\ ev.op = "poll"
    /\ n_poll = 1
    /\ "01" \in Disputed
    /\ Age("01") = 20
    /\ udp_last["01"].state = [position |-> 50]
    /\ PollSnapshot["01"].state.fields["position"] = 0
    /\ data["01"].state.fields["position"] = 50

\* the store as the setup left it in the runs of SetupSpec
SetupStore == get_states(CHOOSE raw \in SetupArrays : TRUE)

\* the step is the merge of the first refresh, at most 20 seconds after the
\* setup: until then only deltas have written to the store, all of them
\* within the preceding 20 seconds
FirstMergeInWindow ==
    /\ n_poll = 1
    /\ pending # {}
    /\ ev'.op = "poll"
    /\ now <= 20

\* the field does not hold the value of the setup: a delta wrote it, and
\* it holds the value of the latest delta that did
WrittenByDelta(sid, k) ==
    GetDiffers(SetupStore[sid].state.fields, k, data[sid].state.fields[k])

\* C33: after a poll refresh every field of a device that some delta of
\* the preceding 20 seconds wrote holds the value of the latest delta that
\* wrote it, also when a later delta of the device carried other fields.
C33_NoFreshUpdateLost ==
    [][FirstMergeInWindow =>
          \A sid \in {x \in DOMAIN data : HasDictState(data[x])} :
              (sid \in DOMAIN get_states(ev'.raw)
                  /\ HasDictState(get_states(ev'.raw)[sid])) =>
                 \A k \in DOMAIN data[sid].state.fields :
                     WrittenByDelta(sid, k) =>
                         FieldIs(data'[sid].state.fields, k,
                                 data[sid].state.fields[k])]_vars

-----------------------------------------------------------------------------
(* Claims about the decoded flags the adapters read *)

\* the Commeo devices of the store whose raw flags are a known value
KnownFlags ==
    {sid \in DOMAIN data :
        /\ data[sid].type = "CM"
        /\ HasDictState(data[sid])
        /\ "flags" \in DOMAIN data[sid].state.fields
        /\ IsHexWord(data[sid].state.fields["flags"])}

\* C34: in every state, for each Commeo device whose stored raw flags are
\* a known value, every flag the adapters read is the bit that the decoding
\* of the stored raw flags gives, and never unknown.
C34_DecodedFlagsConsistent ==
    \A sid \in KnownFlags : \A flag \in FlagNames :
        is_on(data, sid, flag) =
            IF DecodeFlags(HexWord(data[sid].state.fields["flags"]))[flag]
            THEN "True" ELSE "False"

-----------------------------------------------------------------------------
(* Claims about deltas for devices without a status record *)

\* the step handled a prefixed JSON object that names a stored device whose
\* record has no status record: an Iveo receiver or a group
DeltaForStateless ==
    /\ DeltaForKnown
    /\ ~HasDictState(data[ev'.dgram.sid])

\* C35: a delta addressed to a stored device whose state is not a field
\* record changes neither the store nor the ledger and notifies no
\* observer, whatever its changed list and its state are, and the listener
\* goes on.
C35_StatelessDeltaInert ==
    [][DeltaForStateless =>
          /\ NothingChanged
          /\ ev'.outcome = "no_state"
          /\ udp_task' = udp_task]_vars

\* the listener handled a delta with a position for the group 04, whose
\* record has no state: no ledger entry, no notification, and the group is
\* stored without a state as before
C35_Witness ==
    /\ ev.op = "udp"
    /\ ev.dgram.sid = "04"
    /\ ev.dgram.state = DictState([position |-> 50])
    /\ "04" \in DOMAIN data
    /\ data["04"].type = "SGROUP"
    /\ "state" \notin DOMAIN data["04"]
    /\ "04" \notin DOMAIN udp_last
    /\ ev.notified = 0
    /\ udp_task = "running"

-----------------------------------------------------------------------------
(* Claims about the adapters.  entities[sid] holds what the adapters of     *)
(* device sid reported when they last wrote their state.                     *)

\* what the adapters of a stored device report is what their properties
\* compute from the record of the device in coordinator.data
ReportsCurrent(sid) ==
    /\ entities[sid].current_cover_position = current_cover_position(data[sid])
    /\ entities[sid].is_closed = is_closed(data[sid])
    /\ \A flag \in DOMAIN entities[sid].is_on :
          entities[sid].is_on[flag] = is_on(data, sid, flag)

\* C36: in every state, and so after every notification of a store change
\* by a refresh or by an applied delta, the position and the closed state
\* of each cover, each flag sensor and the automatic-mode switch of a
\* stored device report the value computed from the current record of the
\* device, never a value cached before the change.
C36_AdaptersReportCurrent ==
    \A sid \in (DOMAIN entities) \cap (DOMAIN data) : ReportsCurrent(sid)

\* a delta with the flags 0040 and the position 50 was applied to receiver
\* 01 (its ledger entry has the decoded flags); more than 20 seconds later a
\* refresh stored a snapshot with position 0 and without decoded flags, and
\* the adapters report the open cover and no automatic mode
C36_Witness ==
    /\ ev.op = "poll"
    /\ ev.notified = 1
    /\ "01" \in DOMAIN udp_last
    /\ "parsed_flags" \in DOMAIN udp_last["01"].state
    /\ udp_last["01"].state["parsed_flags"].automatic_mode
    /\ udp_last["01"].state["position"] = <<"5", "0">>
    /\ "parsed_flags" \notin DOMAIN data["01"].state.fields
    /\ data["01"].state.fields["position"] = <<"0">>
    /\ entities["01"].current_cover_position = <<100>>
    /\ entities["01"].is_closed = "False"
    /\ entities["01"].is_on["automatic_mode"] = "None"

-----------------------------------------------------------------------------
(* Claims about the teardown, stated of the runs with teardown *)

\* C37: async_unload_entry is never ended by the cancellation of the
\* listener: once it has awaited the cancelled task it goes on to unload
\* the adapters and ends with the store removed or, when the adapters did
\* not unload, kept.
C37_TeardownCompletes ==
    /\ unload_pc \in {"loaded", "awaiting", "unloaded", "kept"}
    /\ unload_pc \in {"unloaded", "kept"} => udp_task # "running"

====
